---- MODULE Spec2Model ----
(***************************************************************************)
(* Kursi Trades purchase-price derivation (price_calculator.py).           *)
(*                                                                         *)
(* The calculator is modelled as a state machine: a price snapshot and the *)
(* configured CNY/NGN override are fixed at start, PriceCalculator is      *)
(* constructed from the snapshot, and then its methods are called one at a *)
(* time, the last call and its return value being kept in the state.       *)
(*                                                                         *)
(* Python values are tagged records.  Numbers carry their Python type      *)
(* (int or float) and an exact rational value; float arithmetic is         *)
(* modelled by exact rational arithmetic on arbitrarily long numerators    *)
(* and denominators, so rounding error of IEEE doubles is not modelled.    *)
(***************************************************************************)
EXTENDS Integers, Sequences, FiniteSets, TLC

(***************************************************************************)
(* Natural numbers of any size: little-endian sequences of limbs in base   *)
(* BASE, without leading zero limbs; the empty sequence is zero.           *)
(***************************************************************************)
BASE == 100 * 100
BigNat == Seq(Nat)

BigOf[n \in Nat] == IF n = 0 THEN <<>> ELSE <<n % BASE>> \o BigOf[n \div BASE]

BigTrim[a \in BigNat] ==
    IF a = <<>> THEN <<>>
    ELSE IF a[Len(a)] = 0 THEN BigTrim[SubSeq(a, 1, Len(a) - 1)] ELSE a

\* a + b + c, c a carry
BigAddC[a \in BigNat, b \in BigNat, c \in Nat] ==
    IF a = <<>> /\ b = <<>> THEN (IF c = 0 THEN <<>> ELSE <<c>>)
    ELSE LET x == IF a = <<>> THEN 0 ELSE Head(a)
             y == IF b = <<>> THEN 0 ELSE Head(b)
             s == x + y + c
         IN  <<s % BASE>> \o BigAddC[IF a = <<>> THEN a ELSE Tail(a),
                                     IF b = <<>> THEN b ELSE Tail(b),
                                     s \div BASE]

BigAdd[a \in BigNat, b \in BigNat] == BigAddC[a, b, 0]

\* the limbs of a - b - c for a >= b + c, c a borrow
BigSubB[a \in BigNat, b \in BigNat, c \in Nat] ==
    IF a = <<>> THEN <<>>
    ELSE LET y == IF b = <<>> THEN 0 ELSE Head(b)
             s == Head(a) - y - c
         IN  <<IF s < 0 THEN s + BASE ELSE s>> \o
             BigSubB[Tail(a), IF b = <<>> THEN b ELSE Tail(b),
                     IF s < 0 THEN 1 ELSE 0]

\* a - b for a >= b
BigSub[a \in BigNat, b \in BigNat] == BigTrim[BigSubB[a, b, 0]]

\* the comparison of the limbs i, i-1, ..., 1 of two numbers of equal length
BigCmpAt[a \in BigNat, b \in BigNat, i \in Nat] ==
    IF i = 0 THEN 0
    ELSE IF a[i] < b[i] THEN -1
    ELSE IF a[i] > b[i] THEN 1
    ELSE BigCmpAt[a, b, i - 1]

\* -1, 0 or 1 as a < b, a = b, a > b
BigCmp[a \in BigNat, b \in BigNat] ==
    IF Len(a) < Len(b) THEN -1
    ELSE IF Len(a) > Len(b) THEN 1
    ELSE BigCmpAt[a, b, Len(a)]

\* a * k + c for a limb k
BigMulSmallC[a \in BigNat, k \in Nat, c \in Nat] ==
    IF a = <<>> THEN (IF c = 0 THEN <<>> ELSE <<c>>)
    ELSE LET s == Head(a) * k + c
         IN  <<s % BASE>> \o BigMulSmallC[Tail(a), k, s \div BASE]

BigShift[a \in BigNat] == IF a = <<>> THEN <<>> ELSE <<0>> \o a

BigMul[a \in BigNat, b \in BigNat] ==
    IF a = <<>> \/ b = <<>> THEN <<>>
    ELSE BigAdd[BigTrim[BigMulSmallC[a, Head(b), 0]], BigShift[BigMul[a, Tail(b)]]]

\* quotient and remainder of n by d (d > 0), by doubling the divisor
BigDivMod[n \in BigNat, d \in BigNat] ==
    IF BigCmp[n, d] < 0 THEN [q |-> <<>>, r |-> n]
    ELSE LET h  == BigDivMod[n, BigAdd[d, d]]
             q2 == BigAdd[h.q, h.q]
         IN  IF BigCmp[h.r, d] >= 0
             THEN [q |-> BigAdd[q2, <<1>>], r |-> BigSub[h.r, d]]
             ELSE [q |-> q2, r |-> h.r]

(***************************************************************************)
(* Exact rationals: a sign, a numerator and a positive denominator.  They  *)
(* are not kept in lowest terms, so they are compared with RatCmp, never   *)
(* with =.                                                                 *)
(***************************************************************************)
RatSet == [neg : BOOLEAN, num : BigNat, den : BigNat]

Rat(n, d) ==
    [neg |-> n < 0, num |-> BigOf[IF n < 0 THEN -n ELSE n], den |-> BigOf[d]]

RatSign[x \in RatSet] == IF x.num = <<>> THEN 0 ELSE IF x.neg THEN -1 ELSE 1

RatNeg[x \in RatSet] == [x EXCEPT !.neg = (x.num # <<>>) /\ ~x.neg]

RatMul[x \in RatSet, y \in RatSet] ==
    [neg |-> x.num # <<>> /\ y.num # <<>> /\ x.neg # y.neg,
     num |-> BigMul[x.num, y.num], den |-> BigMul[x.den, y.den]]

\* x / y for y # 0
RatDiv[x \in RatSet, y \in RatSet] ==
    [neg |-> x.num # <<>> /\ x.neg # y.neg,
     num |-> BigMul[x.num, y.den], den |-> BigMul[x.den, y.num]]

\* the sum of the fractions a/d and b/d with signs na and nb
RatAddSigned[na \in BOOLEAN, a \in BigNat, nb \in BOOLEAN, b \in BigNat, d \in BigNat] ==
    IF na = nb THEN [neg |-> na /\ (a # <<>> \/ b # <<>>), num |-> BigAdd[a, b], den |-> d]
    ELSE IF BigCmp[a, b] = 0 THEN [neg |-> FALSE, num |-> <<>>, den |-> d]
    ELSE IF BigCmp[a, b] > 0 THEN [neg |-> na, num |-> BigSub[a, b], den |-> d]
    ELSE [neg |-> nb, num |-> BigSub[b, a], den |-> d]

RatAdd[x \in RatSet, y \in RatSet] ==
    RatAddSigned[x.neg, BigMul[x.num, y.den], y.neg, BigMul[y.num, x.den],
                 BigMul[x.den, y.den]]

RatSub[x \in RatSet, y \in RatSet] == RatAdd[x, RatNeg[y]]

\* -1, 0 or 1 as x < y, x = y, x > y
RatCmp[x \in RatSet, y \in RatSet] == RatSign[RatSub[x, y]]

\* q or q + 1, as the remainder r of a division by d says: round half to even
RoundUp[q \in BigNat, r \in BigNat, d \in BigNat] ==
    IF BigCmp[BigAdd[r, r], d] > 0 \/ (BigCmp[BigAdd[r, r], d] = 0 /\ q # <<>> /\ Head(q) % 2 = 1)
    THEN BigAdd[q, <<1>>] ELSE q

\* round half to even, to a whole number
RatRound[x \in RatSet] ==
    [neg |-> x.neg /\ RoundUp[BigDivMod[x.num, x.den].q, BigDivMod[x.num, x.den].r, x.den] # <<>>,
     num |-> RoundUp[BigDivMod[x.num, x.den].q, BigDivMod[x.num, x.den].r, x.den],
     den |-> <<1>>]

(***************************************************************************)
(* Python values.                                                          *)
(***************************************************************************)
None == [t |-> "None"]
IntV(n) == [t |-> "int", v |-> Rat(n, 1)]
FloatV(n, d) == [t |-> "float", v |-> Rat(n, d)]
Str(s) == [t |-> "str", s |-> s]
Dict(f) == [t |-> "dict", d |-> f]
EmptyFn == [k \in {} |-> None]
EmptyDict == Dict(EmptyFn)
\* the outcome of an operation that raises TypeError
TypeError == [t |-> "TypeError"]

IsNone(x) == x.t = "None"
Raised(x) == x.t = "TypeError"
IsNum(x) == x.t \in {"int", "float"}
\* isinstance(x, dict)
IsDict(x) == x.t = "dict"
\* a dict that has key k
Has(x, k) == k \in DOMAIN x.d
\* x.get(k, default)
Get(x, k, default) == IF Has(x, k) THEN x.d[k] ELSE default

\* Each operator below takes the values of its operands once (x, y) and then
\* works on those values.
\* bool(a)
TruthyOf(x) ==
    CASE x.t = "None" -> FALSE
      [] IsNum(x)     -> RatSign[x.v] # 0
      [] x.t = "str"  -> x.s # ""
      [] x.t = "dict" -> DOMAIN x.d # {}
      [] x.t = "list" -> x.l # <<>>
      [] x.t = "text" -> x.segs # <<>>
      [] OTHER        -> TRUE
Truthy(a) == \E x \in {a} : TruthyOf(x)
\* a or b
PyOr(a, b) == CHOOSE r \in {IF TruthyOf(x) THEN x ELSE y : x \in {a}, y \in {b}} : TRUE
\* a == b, a < b on numbers (0 == 0.0 in Python)
NumEq(a, b) == \E x \in {a}, y \in {b} : IsNum(x) /\ IsNum(y) /\ RatCmp[x.v, y.v] = 0
NumLt(a, b) == \E x \in {a}, y \in {b} : RatCmp[x.v, y.v] < 0
\* float(a) of a number
PyFloat(a) ==
    CHOOSE r \in {IF IsNum(x) THEN [t |-> "float", v |-> x.v] ELSE TypeError : x \in {a}} : TRUE

NumType(x, y) == IF x.t = "int" /\ y.t = "int" THEN "int" ELSE "float"
\* a * b, a - b: int when both operands are int; TypeError on None
PyMul(a, b) ==
    CHOOSE r \in {IF IsNum(x) /\ IsNum(y)
                  THEN [t |-> NumType(x, y), v |-> RatMul[x.v, y.v]]
                  ELSE TypeError : x \in {a}, y \in {b}} : TRUE
PySub(a, b) ==
    CHOOSE r \in {IF IsNum(x) /\ IsNum(y)
                  THEN [t |-> NumType(x, y), v |-> RatSub[x.v, y.v]]
                  ELSE TypeError : x \in {a}, y \in {b}} : TRUE
\* a / b: true division, always a float (b # 0 wherever the program divides)
PyDiv(a, b) ==
    CHOOSE r \in {IF IsNum(x) /\ IsNum(y)
                  THEN [t |-> "float", v |-> RatDiv[x.v, y.v]]
                  ELSE TypeError : x \in {a}, y \in {b}} : TRUE
\* round(a, 0): an int is returned as it is, a float is rounded half to even
PyRound0(a) ==
    CHOOSE r \in {IF x.t = "int" THEN x
                  ELSE IF x.t = "float" THEN [t |-> "float", v |-> RatRound[x.v]]
                  ELSE TypeError : x \in {a}} : TRUE

(***************************************************************************)
(* Module-level parameters of price_calculator.py.                         *)
(***************************************************************************)
VAT_RATE == FloatV(113, 100)
LOGISTICS_COST_SEA == IntV(80309)
COLTAN_AIR_COST == IntV(8)
SPODUMENE_DISCOUNT == FloatV(6, 10)
LEPIDOLITE_DISCOUNT == FloatV(3, 10)
LEPIDOLITE_TONS_PER_CARBONATE == IntV(20)
LEPIDOLITE_PROCESSING_COST_CNY == IntV(45000)
LEPIDOLITE_BASE_GRADE == FloatV(25, 10)
\* the value CNY_NGN_OVERRIDE is set to in the source; None is the documented
\* other setting
OVERRIDE_AS_SHIPPED == IntV(216)

VARIABLES
    CNY_NGN_OVERRIDE,   \* the configured manual override: None or a number
    price_data,         \* the snapshot the calculator is constructed from
    pc,                 \* "start", "ready", "raised" (constructor raised), "returned"
    self,               \* the PriceCalculator object's fields
    call,               \* the last method call: its name and arguments
    ret                 \* what the last method call returned

\* the scraper's files and the client's clock (price_scraper.py, manus_client.py)
VARIABLES
    files,              \* the data directory: path -> the JSON text of the file
    saves,              \* the arguments of the save_prices calls that returned
    now,                \* time.time(), in seconds
    start_time,         \* wait_for_task's start_time
    polls,              \* the status requests wait_for_task has made
    status              \* the status wait_for_task observed last

calculator == <<CNY_NGN_OVERRIDE, price_data, self>>
scraper == <<files, saves>>
client == <<now, start_time, polls, status>>
vars == <<CNY_NGN_OVERRIDE, price_data, pc, self, call, ret, files, saves,
          now, start_time, polls, status>>

(***************************************************************************)
(* PriceCalculator.__init__                                                *)
(***************************************************************************)
\* x.get("rate", default) if isinstance(x, dict) else x
RateOf(x, default) == IF IsDict(x) THEN Get(x, "rate", default) ELSE x

\* the snapshot value is used only where no override is configured
CnyNgnSnapshotFirst(cny_ngn, override) ==
    IF cny_ngn.t = "dict" /\ ~Has(cny_ngn, "rate") /\ ~IsNone(override) THEN override
    ELSE RateOf(cny_ngn, FloatV(21235, 100))

\* if CNY_NGN_OVERRIDE is not None: the override; else the snapshot's cny_ngn
ResolveCnyNgn(cny_ngn, override) ==
    IF ~IsNone(override) THEN override ELSE RateOf(cny_ngn, FloatV(21235, 100))

\* the rate read from the snapshot is kept
KeepUsdNgn(USD_NGN, CNY_NGN, USD_CNY) == USD_NGN

\* self.USD_NGN = self.CNY_NGN * self.USD_CNY, over the value read before
SyncUsdNgn(USD_NGN, CNY_NGN, USD_CNY) == PyMul(CNY_NGN, USD_CNY)

\* the source tag decided by what the snapshot holds, not by the override
__init__tag_by_snapshot(data, override) ==
    LET exchange_rates == Get(data, "exchange_rates", EmptyDict)
        usd_ngn == Get(exchange_rates, "usd_ngn", EmptyDict)
        usd_cny == Get(exchange_rates, "usd_cny", EmptyDict)
        cny_ngn == Get(exchange_rates, "cny_ngn", EmptyDict)
        USD_NGN0 == RateOf(usd_ngn, IntV(1487))
        USD_CNY  == RateOf(usd_cny, FloatV(70, 10))
        CNY_NGN  == ResolveCnyNgn(cny_ngn, override)
        SOURCE   == IF Has(exchange_rates, "cny_ngn") THEN "Auto" ELSE "Manual Override"
        USD_NGN  == SyncUsdNgn(USD_NGN0, CNY_NGN, USD_CNY)
    IN  [raised |-> Raised(USD_NGN), date |-> Get(data, "date", None),
         USD_NGN |-> USD_NGN, USD_CNY |-> USD_CNY, CNY_NGN |-> CNY_NGN,
         CNY_NGN_SOURCE |-> SOURCE,
         smm |-> Get(data, "smm_prices", EmptyDict)]

__init__(data, override) ==
    LET exchange_rates == Get(data, "exchange_rates", EmptyDict)
        usd_ngn == Get(exchange_rates, "usd_ngn", EmptyDict)
        usd_cny == Get(exchange_rates, "usd_cny", EmptyDict)
        cny_ngn == Get(exchange_rates, "cny_ngn", EmptyDict)
        USD_NGN0 == RateOf(usd_ngn, IntV(1487))
        USD_CNY  == RateOf(usd_cny, FloatV(70, 10))
        CNY_NGN  == ResolveCnyNgn(cny_ngn, override)
        SOURCE   == IF ~IsNone(override) THEN "Manual Override" ELSE "Auto"
        USD_NGN  == SyncUsdNgn(USD_NGN0, CNY_NGN, USD_CNY)
    IN  [raised |-> Raised(USD_NGN), date |-> Get(data, "date", None),
         USD_NGN |-> USD_NGN, USD_CNY |-> USD_CNY, CNY_NGN |-> CNY_NGN,
         CNY_NGN_SOURCE |-> SOURCE,
         smm |-> Get(data, "smm_prices", EmptyDict)]

NoObject ==
    [raised |-> FALSE, date |-> None, USD_NGN |-> None, USD_CNY |-> None, CNY_NGN |-> None,
     CNY_NGN_SOURCE |-> "", smm |-> EmptyDict]
NoCall == [op |-> ""]

(***************************************************************************)
(* PriceCalculator._get_price                                              *)
(***************************************************************************)
\* one candidate key: data = self.smm.get(key, {}); if it is a dict,
\* price = data.get(field) or data.get("price"); if price is not None the
\* method returns (hit) float(price), or None when price == 0
TryKey(obj, key, field) ==
    LET data == Get(obj.smm, key, EmptyDict)
    IN  IF ~IsDict(data) THEN [hit |-> FALSE, val |-> None]
        ELSE LET price == PyOr(Get(data, field, None), Get(data, "price", None))
             IN  IF IsNone(price) THEN [hit |-> FALSE, val |-> None]
                 ELSE [hit |-> TRUE,
                       val |-> IF ~NumEq(price, IntV(0)) THEN PyFloat(price)
                               ELSE None]

\* for fallback_key in fallback_keys: ... ; return None
RECURSIVE TryFallbacks(_, _, _)
TryFallbacks(obj, field, keys) ==
    IF keys = <<>> THEN None
    ELSE LET r == TryKey(obj, Head(keys), field)
         IN  IF r.hit THEN r.val ELSE TryFallbacks(obj, field, Tail(keys))

\* fallback_keys = None and fallback_keys = [] are both the empty sequence
_get_price(obj, key, field, fallback_keys) ==
    LET r == TryKey(obj, key, field)
    IN  IF r.hit THEN r.val ELSE TryFallbacks(obj, field, fallback_keys)

\* self._get_price(key): field and fallback_keys at their defaults
GetDefault(obj, key) == _get_price(obj, key, "price_avg", <<>>)

(***************************************************************************)
(* The nine strategies.                                                    *)
(***************************************************************************)
\* the per-tonne price returned without the conversion to kilograms
calc_tin_ore_per_ton(obj, grade_percent) ==
    LET metal_price_usd == GetDefault(obj, "tin")
    IN  IF ~Truthy(metal_price_usd) THEN IntV(0)
        ELSE LET china_price_usd == PyMul(metal_price_usd, PyDiv(grade_percent, IntV(100)))
                 china_price_ngn == PyMul(china_price_usd, obj.USD_NGN)
                 fob_price_ngn == PySub(china_price_ngn, LOGISTICS_COST_SEA)
             IN  PyDiv(fob_price_ngn, VAT_RATE)

calc_tin_ore(obj, grade_percent) ==
    LET metal_price_usd == GetDefault(obj, "tin")
    IN  IF ~Truthy(metal_price_usd) THEN IntV(0)
        ELSE LET china_price_usd == PyMul(metal_price_usd, PyDiv(grade_percent, IntV(100)))
                 china_price_ngn == PyMul(china_price_usd, obj.USD_NGN)
                 fob_price_ngn == PySub(china_price_ngn, LOGISTICS_COST_SEA)
                 max_price_ngn_per_ton == PyDiv(fob_price_ngn, VAT_RATE)
             IN  PyDiv(max_price_ngn_per_ton, IntV(1000))

\* the air cost taken off after the VAT division
calc_coltan_air_after_vat(obj, grade_percent) ==
    LET ta2o5_price_usd_kg == GetDefault(obj, "tantalum_oxide")
    IN  IF ~Truthy(ta2o5_price_usd_kg) THEN IntV(0)
        ELSE LET unit ==
                     PyMul(PyDiv(PySub(PyDiv(ta2o5_price_usd_kg, VAT_RATE), COLTAN_AIR_COST),
                                 IntV(100)), obj.USD_NGN)
             IN  PyMul(grade_percent, unit)

\* the sea-logistics cost taken off the result as well
calc_coltan_less_logistics(obj, grade_percent) ==
    LET ta2o5_price_usd_kg == GetDefault(obj, "tantalum_oxide")
    IN  IF ~Truthy(ta2o5_price_usd_kg) THEN IntV(0)
        ELSE LET unit ==
                     PyMul(PyDiv(PyDiv(PySub(ta2o5_price_usd_kg, COLTAN_AIR_COST),
                                       VAT_RATE), IntV(100)), obj.USD_NGN)
             IN  PySub(PyMul(grade_percent, unit), PyDiv(LOGISTICS_COST_SEA, IntV(1000)))

calc_coltan(obj, grade_percent) ==
    LET ta2o5_price_usd_kg == GetDefault(obj, "tantalum_oxide")
    IN  IF ~Truthy(ta2o5_price_usd_kg) THEN IntV(0)
        ELSE LET unit_price_per_grade ==
                     PyMul(PyDiv(PyDiv(PySub(ta2o5_price_usd_kg, COLTAN_AIR_COST),
                                       VAT_RATE), IntV(100)), obj.USD_NGN)
             IN  PyMul(grade_percent, unit_price_per_grade)

MonazitePrice(obj) ==
    _get_price(obj, "monazite_concentrate", "price_avg",
               <<"monazite", "monazite_concentrate">>)

\* without the clamp at fob_price_ngn <= 0
calc_monazite_unclamped(obj, grade_percent) ==
    LET smm_price_usd_ton == MonazitePrice(obj)
    IN  IF ~Truthy(smm_price_usd_ton) THEN IntV(0)
        ELSE LET china_price_ngn == PyMul(PyMul(smm_price_usd_ton, obj.USD_NGN),
                                          PyDiv(grade_percent, IntV(60)))
                 fob_price_ngn == PySub(china_price_ngn, LOGISTICS_COST_SEA)
                 max_price_ngn_per_ton == PyDiv(fob_price_ngn, VAT_RATE)
             IN  PyDiv(max_price_ngn_per_ton, IntV(1000))

calc_monazite(obj, grade_percent) ==
    LET smm_price_usd_ton == MonazitePrice(obj)
    IN  IF ~Truthy(smm_price_usd_ton) THEN IntV(0)
        ELSE LET china_price_ngn == PyMul(PyMul(smm_price_usd_ton, obj.USD_NGN),
                                          PyDiv(grade_percent, IntV(60)))
                 fob_price_ngn == PySub(china_price_ngn, LOGISTICS_COST_SEA)
                 max_price_ngn_per_ton == PyDiv(fob_price_ngn, VAT_RATE)
             IN  IF ~NumLt(IntV(0), fob_price_ngn) THEN IntV(0)
                 ELSE PyDiv(max_price_ngn_per_ton, IntV(1000))

\* the CNY price converted at the USD rate
calc_titanium_usd_rate(obj) ==
    LET smm_price_cny_ton == GetDefault(obj, "titanium_concentrate")
    IN  IF ~Truthy(smm_price_cny_ton) THEN IntV(0)
        ELSE LET china_price_ngn == PyMul(smm_price_cny_ton, obj.USD_NGN)
                 fob_price_ngn == PySub(china_price_ngn, LOGISTICS_COST_SEA)
             IN  PyDiv(fob_price_ngn, VAT_RATE)

calc_titanium(obj) ==
    LET smm_price_cny_ton == GetDefault(obj, "titanium_concentrate")
    IN  IF ~Truthy(smm_price_cny_ton) THEN IntV(0)
        ELSE LET china_price_ngn == PyMul(smm_price_cny_ton, obj.CNY_NGN)
                 fob_price_ngn == PySub(china_price_ngn, LOGISTICS_COST_SEA)
             IN  PyDiv(fob_price_ngn, VAT_RATE)

\* without the "if not smm_price_usd_ton: return 0" guard
calc_zircon_unguarded(obj) ==
    LET smm_price_usd_ton == GetDefault(obj, "zircon_sand")
        china_price_ngn == PyMul(smm_price_usd_ton, obj.USD_NGN)
        fob_price_ngn == PySub(china_price_ngn, LOGISTICS_COST_SEA)
    IN  PyDiv(fob_price_ngn, VAT_RATE)

calc_zircon(obj) ==
    LET smm_price_usd_ton == GetDefault(obj, "zircon_sand")
    IN  IF ~Truthy(smm_price_usd_ton) THEN IntV(0)
        ELSE LET china_price_ngn == PyMul(smm_price_usd_ton, obj.USD_NGN)
                 fob_price_ngn == PySub(china_price_ngn, LOGISTICS_COST_SEA)
             IN  PyDiv(fob_price_ngn, VAT_RATE)

\* the discount taken off the reference price instead of the result
calc_spodumene_discount_first(obj, grade_percent) ==
    LET smm_price_usd_ton == GetDefault(obj, "spodumene")
    IN  IF ~Truthy(smm_price_usd_ton) THEN IntV(0)
        ELSE LET china_price_ngn ==
                     PyMul(PyMul(PyMul(smm_price_usd_ton, SPODUMENE_DISCOUNT), obj.USD_NGN),
                           PyDiv(grade_percent, IntV(6)))
                 fob_price_ngn == PySub(china_price_ngn, LOGISTICS_COST_SEA)
             IN  PyDiv(fob_price_ngn, VAT_RATE)

\* with monazite's clamp: 0 when fob_price_ngn <= 0
calc_spodumene_clamped(obj, grade_percent) ==
    LET smm_price_usd_ton == GetDefault(obj, "spodumene")
    IN  IF ~Truthy(smm_price_usd_ton) THEN IntV(0)
        ELSE LET china_price_ngn == PyMul(PyMul(smm_price_usd_ton, obj.USD_NGN),
                                          PyDiv(grade_percent, IntV(6)))
                 fob_price_ngn == PySub(china_price_ngn, LOGISTICS_COST_SEA)
                 max_price_ngn_per_ton == PyDiv(fob_price_ngn, VAT_RATE)
             IN  IF ~NumLt(IntV(0), fob_price_ngn) THEN IntV(0)
                 ELSE PyMul(max_price_ngn_per_ton, SPODUMENE_DISCOUNT)

calc_spodumene(obj, grade_percent) ==
    LET smm_price_usd_ton == GetDefault(obj, "spodumene")
    IN  IF ~Truthy(smm_price_usd_ton) THEN IntV(0)
        ELSE LET china_price_ngn == PyMul(PyMul(smm_price_usd_ton, obj.USD_NGN),
                                          PyDiv(grade_percent, IntV(6)))
                 fob_price_ngn == PySub(china_price_ngn, LOGISTICS_COST_SEA)
                 max_price_ngn_per_ton == PyDiv(fob_price_ngn, VAT_RATE)
             IN  PyMul(max_price_ngn_per_ton, SPODUMENE_DISCOUNT)

\* the discount applied to the intermediate ore price, before logistics and VAT
calc_lepidolite_discount_first(obj, grade_percent) ==
    LET carbonate_price_usd == GetDefault(obj, "lithium_carbonate")
    IN  IF ~Truthy(carbonate_price_usd) THEN IntV(0)
        ELSE LET carbonate_price_cny == PyMul(carbonate_price_usd, obj.USD_CNY)
                 lepidolite_price_cny ==
                     PyMul(PyMul(PyDiv(PySub(carbonate_price_cny,
                                             LEPIDOLITE_PROCESSING_COST_CNY),
                                       LEPIDOLITE_TONS_PER_CARBONATE),
                                 PyDiv(grade_percent, LEPIDOLITE_BASE_GRADE)),
                           LEPIDOLITE_DISCOUNT)
                 china_price_ngn == PyMul(lepidolite_price_cny, obj.CNY_NGN)
                 fob_price_ngn == PySub(china_price_ngn, LOGISTICS_COST_SEA)
             IN  PyDiv(fob_price_ngn, VAT_RATE)

\* the processing cost and the carbonate price subtracted the other way round
calc_lepidolite_cost_first(obj, grade_percent) ==
    LET carbonate_price_usd == GetDefault(obj, "lithium_carbonate")
    IN  IF ~Truthy(carbonate_price_usd) THEN IntV(0)
        ELSE LET carbonate_price_cny == PyMul(carbonate_price_usd, obj.USD_CNY)
                 lepidolite_price_cny ==
                     PyMul(PyDiv(PySub(LEPIDOLITE_PROCESSING_COST_CNY, carbonate_price_cny),
                                 LEPIDOLITE_TONS_PER_CARBONATE),
                           PyDiv(grade_percent, LEPIDOLITE_BASE_GRADE))
                 china_price_ngn == PyMul(lepidolite_price_cny, obj.CNY_NGN)
                 fob_price_ngn == PySub(china_price_ngn, LOGISTICS_COST_SEA)
                 max_price_ngn_per_ton == PyDiv(fob_price_ngn, VAT_RATE)
             IN  PyMul(max_price_ngn_per_ton, LEPIDOLITE_DISCOUNT)

calc_lepidolite(obj, grade_percent) ==
    LET carbonate_price_usd == GetDefault(obj, "lithium_carbonate")
    IN  IF ~Truthy(carbonate_price_usd) THEN IntV(0)
        ELSE LET carbonate_price_cny == PyMul(carbonate_price_usd, obj.USD_CNY)
                 lepidolite_price_cny ==
                     PyMul(PyDiv(PySub(carbonate_price_cny, LEPIDOLITE_PROCESSING_COST_CNY),
                                 LEPIDOLITE_TONS_PER_CARBONATE),
                           PyDiv(grade_percent, LEPIDOLITE_BASE_GRADE))
                 china_price_ngn == PyMul(lepidolite_price_cny, obj.CNY_NGN)
                 fob_price_ngn == PySub(china_price_ngn, LOGISTICS_COST_SEA)
                 max_price_ngn_per_ton == PyDiv(fob_price_ngn, VAT_RATE)
             IN  PyMul(max_price_ngn_per_ton, LEPIDOLITE_DISCOUNT)

\* the metal price taken whole, whatever the grade
calc_lead_ore_flat(obj, grade_percent) ==
    LET metal_price_usd == GetDefault(obj, "lead")
    IN  IF ~Truthy(metal_price_usd) THEN IntV(0)
        ELSE LET china_price_usd == metal_price_usd
                 china_price_ngn == PyMul(china_price_usd, obj.USD_NGN)
                 fob_price_ngn == PySub(china_price_ngn, LOGISTICS_COST_SEA)
             IN  PyDiv(fob_price_ngn, VAT_RATE)

calc_lead_ore(obj, grade_percent) ==
    LET metal_price_usd == GetDefault(obj, "lead")
    IN  IF ~Truthy(metal_price_usd) THEN IntV(0)
        ELSE LET china_price_usd == PyMul(metal_price_usd, PyDiv(grade_percent, IntV(100)))
                 china_price_ngn == PyMul(china_price_usd, obj.USD_NGN)
                 fob_price_ngn == PySub(china_price_ngn, LOGISTICS_COST_SEA)
             IN  PyDiv(fob_price_ngn, VAT_RATE)

\* the grade taken as a ratio to the 50% base grade
calc_zinc_ore_base_grade(obj, grade_percent) ==
    LET metal_price_usd == GetDefault(obj, "zinc")
    IN  IF ~Truthy(metal_price_usd) THEN IntV(0)
        ELSE LET china_price_usd == PyMul(metal_price_usd, PyDiv(grade_percent, IntV(50)))
                 china_price_ngn == PyMul(china_price_usd, obj.USD_NGN)
                 fob_price_ngn == PySub(china_price_ngn, LOGISTICS_COST_SEA)
             IN  PyDiv(fob_price_ngn, VAT_RATE)

calc_zinc_ore(obj, grade_percent) ==
    LET metal_price_usd == GetDefault(obj, "zinc")
    IN  IF ~Truthy(metal_price_usd) THEN IntV(0)
        ELSE LET china_price_usd == PyMul(metal_price_usd, PyDiv(grade_percent, IntV(100)))
                 china_price_ngn == PyMul(china_price_usd, obj.USD_NGN)
                 fob_price_ngn == PySub(china_price_ngn, LOGISTICS_COST_SEA)
             IN  PyDiv(fob_price_ngn, VAT_RATE)

\* the local variables of calc_tin_ore past its guard, for a price metal_price_usd
calc_tin_ore_locals(obj, metal_price_usd, grade_percent) ==
    LET china_price_usd == PyMul(metal_price_usd, PyDiv(grade_percent, IntV(100)))
        china_price_ngn == PyMul(china_price_usd, obj.USD_NGN)
        fob_price_ngn == PySub(china_price_ngn, LOGISTICS_COST_SEA)
    IN  [china_price_usd |-> china_price_usd, china_price_ngn |-> china_price_ngn,
         fob_price_ngn |-> fob_price_ngn,
         max_price_ngn_per_ton |-> PyDiv(fob_price_ngn, VAT_RATE)]

\* the local unit_price_per_grade of calc_coltan, for a price ta2o5_price_usd_kg
unit_price_per_grade(obj, ta2o5_price_usd_kg) ==
    PyMul(PyDiv(PyDiv(PySub(ta2o5_price_usd_kg, COLTAN_AIR_COST), VAT_RATE), IntV(100)),
          obj.USD_NGN)

(***************************************************************************)
(* PriceCalculator.calculate_all (calculation_time, the wall clock, is     *)
(* left out of the result).                                                *)
(***************************************************************************)
\* the grade points of each commodity's table: label -> grade_percent
TinGradePoints ==
    ("60%" :> IntV(60)) @@ ("65%" :> IntV(65)) @@ ("70%" :> IntV(70)) @@
    ("75%" :> IntV(75))
\* the coltan table without its 35% row
ColtanGradePointsShort ==
    ("20%" :> IntV(20)) @@ ("25%" :> IntV(25)) @@ ("30%" :> IntV(30))
ColtanGradePoints ==
    ("20%" :> IntV(20)) @@ ("25%" :> IntV(25)) @@ ("30%" :> IntV(30)) @@
    ("35%" :> IntV(35))
MonaziteGradePoints ==
    ("30%" :> IntV(30)) @@ ("40%" :> IntV(40)) @@ ("45%" :> IntV(45)) @@
    ("50%" :> IntV(50)) @@ ("60%" :> IntV(60))
SpodumeneGradePoints ==
    ("3%" :> IntV(3)) @@ ("4%" :> IntV(4)) @@ ("5%" :> IntV(5)) @@ ("6%" :> IntV(6))
LepidoliteGradePoints ==
    ("2.0%" :> FloatV(20, 10)) @@ ("2.5%" :> FloatV(25, 10)) @@
    ("3.0%" :> FloatV(30, 10))
LeadGradePoints == ("40%" :> IntV(40)) @@ ("50%" :> IntV(50)) @@ ("60%" :> IntV(60))
ZincGradePoints == ("40%" :> IntV(40)) @@ ("50%" :> IntV(50)) @@ ("60%" :> IntV(60))

\* the looked-up price rounded to the whole unit before it is recorded
SourcePriceRounded(obj, key, unit) ==
    [price |-> IF IsNone(GetDefault(obj, key)) THEN None ELSE PyRound0(GetDefault(obj, key)),
     unit |-> unit]
SourcePrice(obj, key, unit) == [price |-> GetDefault(obj, key), unit |-> unit]

calculate_all(obj) ==
    [date |-> obj.date,
     exchange_rates |->
         [usd_ngn |-> obj.USD_NGN, usd_cny |-> obj.USD_CNY, cny_ngn |-> obj.CNY_NGN,
          cny_ngn_source |-> obj.CNY_NGN_SOURCE],
     parameters |->
         [vat_rate |-> VAT_RATE, logistics_cost_sea_ngn |-> LOGISTICS_COST_SEA,
          coltan_air_cost_usd |-> COLTAN_AIR_COST,
          spodumene_discount |-> SPODUMENE_DISCOUNT,
          lepidolite_discount |-> LEPIDOLITE_DISCOUNT],
     source_prices |->
         [tin |-> SourcePrice(obj, "tin", "USD/mt"),
          tantalum_oxide |-> SourcePrice(obj, "tantalum_oxide", "USD/kg"),
          monazite |-> SourcePrice(obj, "monazite_concentrate", "USD/mt"),
          titanium |-> SourcePrice(obj, "titanium_concentrate", "CNY/mt"),
          zircon |-> SourcePrice(obj, "zircon_sand", "USD/mt"),
          spodumene |-> SourcePrice(obj, "spodumene", "USD/mt"),
          lithium_carbonate |-> SourcePrice(obj, "lithium_carbonate", "USD/mt"),
          lead |-> SourcePrice(obj, "lead", "USD/mt"),
          zinc |-> SourcePrice(obj, "zinc", "USD/mt")],
     max_purchase_prices |->
         [tin_ore |->
              [unit |-> "NGN/kg", base_grade |-> "70%",
               grades |-> [l \in DOMAIN TinGradePoints |->
                              PyRound0(calc_tin_ore(obj, TinGradePoints[l]))]],
          coltan |->
              [unit |-> "NGN/kg", base_grade |-> "30% Ta2O5", note |-> "Air freight",
               grades |-> [l \in DOMAIN ColtanGradePoints |->
                              PyRound0(calc_coltan(obj, ColtanGradePoints[l]))]],
          monazite |->
              [unit |-> "NGN/kg", base_grade |-> "60% TREO",
               grades |-> [l \in DOMAIN MonaziteGradePoints |->
                              PyRound0(calc_monazite(obj, MonaziteGradePoints[l]))]],
          titanium |->
              [unit |-> "NGN/ton", base_grade |-> ">=50% TiO2",
               grades |-> [l \in {"50%"} |-> PyRound0(calc_titanium(obj))]],
          zircon |->
              [unit |-> "NGN/ton", base_grade |-> ">=65% Zr(Hf)O2",
               grades |-> [l \in {"65%"} |-> PyRound0(calc_zircon(obj))]],
          spodumene |->
              [unit |-> "NGN/ton", base_grade |-> "6% Li2O",
               grades |-> [l \in DOMAIN SpodumeneGradePoints |->
                              PyRound0(calc_spodumene(obj, SpodumeneGradePoints[l]))]],
          lepidolite |->
              [unit |-> "NGN/ton", base_grade |-> "2.5% Li2O",
               grades |-> [l \in DOMAIN LepidoliteGradePoints |->
                              PyRound0(calc_lepidolite(obj, LepidoliteGradePoints[l]))]],
          lead_ore |->
              [unit |-> "NGN/ton", base_grade |-> "50% Pb",
               grades |-> [l \in DOMAIN LeadGradePoints |->
                              PyRound0(calc_lead_ore(obj, LeadGradePoints[l]))]],
          zinc_ore |->
              [unit |-> "NGN/ton", base_grade |-> "50% Zn",
               grades |-> [l \in DOMAIN ZincGradePoints |->
                              PyRound0(calc_zinc_ore(obj, ZincGradePoints[l]))]]]]

(***************************************************************************)
(* The snapshots the calculator is run on (the JSON documents that         *)
(* load_latest_prices may read), and the arguments of the calls.           *)
(***************************************************************************)
\* how many price levels the template snapshots are built at
MaxLevel == 2
\* the longest fallback_keys list passed to _get_price
MaxFallbackLen == 2

\* marks a key that is left out of a dict
Absent == [t |-> "absent"]
Opt(k, v) == IF v.t = "absent" THEN EmptyFn ELSE (k :> v)

\* one smm_prices record, in the shape of the scraper's output template
PriceRecord(price_avg, price) ==
    Dict(Opt("price_avg", price_avg) @@ Opt("price", price) @@
         ("unit" :> Str("USD/mt")) @@ ("change" :> None))

\* the keys the calculator reads, and "monazite" that it accepts as a fallback
CalcKeys ==
    {"tin", "tantalum_oxide", "monazite_concentrate", "monazite",
     "titanium_concentrate", "zircon_sand", "spodumene", "lithium_carbonate",
     "lead", "zinc"}
\* the smm_prices keys of the scraper's output template
ScraperKeys ==
    {"monazite", "spodumene", "lithium_carbonate", "titanium", "tantalum_ore",
     "tantalum_oxide", "niobium_oxide", "zircon_sand", "tin", "lead", "zinc",
     "gold", "silver"}
SmmKeys == CalcKeys \cup {"titanium", "gold"}

\* a typical price of each key, in hundredths of its unit
TypicalCents ==
    [tin |-> 3000000, tantalum_oxide |-> 6500, monazite_concentrate |-> 750435,
     monazite |-> 750435, titanium_concentrate |-> 200000, titanium |-> 200000,
     zircon_sand |-> 200000, spodumene |-> 90000, lithium_carbonate |-> 1000000,
     lead |-> 200000, zinc |-> 280000, gold |-> 50000, silver |-> 700000,
     tantalum_ore |-> 9000, niobium_oxide |-> 4500]

\* level 1 is a thousandth of the typical price (too low to cover logistics),
\* level 2 the typical price, level 3 twice it, ...
LevelPrice(key, level) ==
    IF level = 1 THEN FloatV(TypicalCents[key], 100000)
    ELSE FloatV(TypicalCents[key] * (level - 1), 100)

Template(level) == [k \in SmmKeys |-> PriceRecord(LevelPrice(k, level), Absent)]
ScraperTemplate(level) ==
    [k \in ScraperKeys |-> PriceRecord(LevelPrice(k, level), Absent)]

\* what a key of smm_prices may hold instead: nothing, null, a bare number, or
\* a record whose price_avg and price are each absent, null, 0 or a number
RecVariants(v) ==
    {Absent, None, FloatV(5, 1)} \cup
    {PriceRecord(a, b) : a \in {Absent, None, IntV(0), v, IntV(-3)},
                         b \in {Absent, None, IntV(0), IntV(12)}}

\* what the fallback record holds in the snapshots that vary two records at once
FallbackVariants(v) ==
    {Absent, None, PriceRecord(v, Absent), PriceRecord(Absent, IntV(12)),
     PriceRecord(IntV(0), Absent), PriceRecord(None, IntV(0))}

Deviate(smm, k, variant) ==
    IF variant.t = "absent" THEN [x \in DOMAIN smm \ {k} |-> smm[x]]
    ELSE [x \in DOMAIN smm \cup {k} |-> IF x = k THEN variant ELSE smm[x]]

SmmFamily ==
    {EmptyFn} \cup
    UNION {
        {Template(l), ScraperTemplate(l)} \cup
        {Deviate(Template(l), k, r) :
            k \in SmmKeys, r \in RecVariants(LevelPrice("tin", l))} \cup
        {Deviate(Deviate(Template(l), "monazite_concentrate", r1), "monazite", r2) :
            r1 \in RecVariants(LevelPrice("monazite_concentrate", l)),
            r2 \in FallbackVariants(LevelPrice("monazite", l))}
        : l \in 1..MaxLevel }

\* an entry of exchange_rates: absent, null, a bare number, or a record with
\* no rate, a null rate or a rate
RateEntries(v) ==
    {Absent, None, v, EmptyDict, Dict("rate" :> None), Dict("rate" :> v)}

ExchangeRates(usd_ngn, usd_cny, cny_ngn) ==
    Dict(Opt("usd_ngn", usd_ngn) @@ Opt("usd_cny", usd_cny) @@
         Opt("cny_ngn", cny_ngn) @@ ("rate_type" :> Str("parallel_market")))

RateFamily ==
    {ExchangeRates(a, b, c) :
        a \in RateEntries(FloatV(1650, 1)),
        b \in RateEntries(FloatV(7504, 1000)) \cup {IntV(0)},
        c \in RateEntries(FloatV(2145, 10))}

TypicalRates ==
    ExchangeRates(FloatV(1650, 1), FloatV(7504, 1000), FloatV(2145, 10))

\* rates whose product CNY_NGN * USD_CNY is 1620.84 when no override is configured
RoundProductRates ==
    ExchangeRates(FloatV(1650, 1), FloatV(75, 10), FloatV(216112, 1000))

Snapshot(rates, smm) ==
    Dict(("date" :> Str("2026-01-05")) @@ ("exchange_rates" :> rates) @@
         ("smm_prices" :> Dict(smm)))

Snapshots ==
    {Dict("date" :> Str("2026-01-05"))} \cup
    {Snapshot(r, Template(2)) : r \in RateFamily \cup {RoundProductRates}} \cup
    {Snapshot(TypicalRates, s) : s \in SmmFamily}

RECURSIVE SeqsUpTo(_, _)
SeqsUpTo(S, n) ==
    IF n = 0 THEN {<<>>}
    ELSE LET shorter == SeqsUpTo(S, n - 1)
         IN  shorter \cup {<<k>> \o q : k \in S, q \in {x \in shorter : Len(x) = n - 1}}

LookupKeys == {"monazite_concentrate", "tin", "silver"}
LookupFields == {"price_avg", "price"}
FallbackLists == SeqsUpTo({"monazite", "tin"}, MaxFallbackLen)

Range(f) == {f[x] : x \in DOMAIN f}
\* the grades the strategies are called with: the table's grade points, and
\* 70% and 75% for lead and zinc as well
TinGrades == Range(TinGradePoints)
ColtanGrades == Range(ColtanGradePoints)
MonaziteGrades == Range(MonaziteGradePoints)
SpodumeneGrades == Range(SpodumeneGradePoints)
LepidoliteGrades == Range(LepidoliteGradePoints)
LeadGrades == Range(LeadGradePoints) \cup {IntV(70), IntV(75)}
ZincGrades == Range(ZincGradePoints) \cup {IntV(70), IntV(75)}

(***************************************************************************)
(* The state machine.                                                      *)
(***************************************************************************)
\* nothing has been saved: the data directory is empty
NoFilesYet == files = EmptyFn /\ saves = <<>>
\* no wait_for_task has started
ClockAtStart == now = 0 /\ start_time = 0 /\ polls = 0 /\ status = None

Init ==
    /\ CNY_NGN_OVERRIDE \in {None, OVERRIDE_AS_SHIPPED}
    /\ price_data \in Snapshots
    /\ pc = "start"
    /\ self = NoObject
    /\ call = NoCall
    /\ ret = None
    /\ NoFilesYet
    /\ ClockAtStart

\* calculator = PriceCalculator(price_data)
Construct ==
    /\ pc = "start"
    /\ LET r == __init__(price_data, CNY_NGN_OVERRIDE)
       IN  /\ self' = IF r.raised THEN [NoObject EXCEPT !.raised = TRUE] ELSE r
           /\ pc' = IF r.raised THEN "raised" ELSE "ready"
    /\ UNCHANGED <<CNY_NGN_OVERRIDE, price_data, call, ret, scraper, client>>

\* a method call on the constructed calculator runs to its return
Invoke(c, r) ==
    /\ pc = "ready"
    /\ call' = c
    /\ ret' = r
    /\ pc' = "returned"
    /\ UNCHANGED <<calculator, scraper, client>>

GetPrice ==
    \E key \in LookupKeys, field \in LookupFields, fb \in FallbackLists :
        Invoke([op |-> "_get_price", key |-> key, field |-> field,
                fallback_keys |-> fb],
               _get_price(self, key, field, fb))

CalcTinOre ==
    \E g \in TinGrades :
        Invoke([op |-> "calc_tin_ore", grade |-> g], calc_tin_ore(self, g))
CalcColtan ==
    \E g \in ColtanGrades :
        Invoke([op |-> "calc_coltan", grade |-> g], calc_coltan(self, g))
CalcMonazite ==
    \E g \in MonaziteGrades :
        Invoke([op |-> "calc_monazite", grade |-> g], calc_monazite(self, g))
CalcTitanium == Invoke([op |-> "calc_titanium"], calc_titanium(self))
CalcZircon == Invoke([op |-> "calc_zircon"], calc_zircon(self))
CalcSpodumene ==
    \E g \in SpodumeneGrades :
        Invoke([op |-> "calc_spodumene", grade |-> g], calc_spodumene(self, g))
CalcLepidolite ==
    \E g \in LepidoliteGrades :
        Invoke([op |-> "calc_lepidolite", grade |-> g], calc_lepidolite(self, g))
CalcLeadOre ==
    \E g \in LeadGrades :
        Invoke([op |-> "calc_lead_ore", grade |-> g], calc_lead_ore(self, g))
CalcZincOre ==
    \E g \in ZincGrades :
        Invoke([op |-> "calc_zinc_ore", grade |-> g], calc_zinc_ore(self, g))
CalculateAll == Invoke([op |-> "calculate_all"], calculate_all(self))

\* the caller takes the returned value and is free to call again
Return ==
    /\ pc = "returned"
    /\ pc' = "ready"
    /\ call' = NoCall
    /\ ret' = None
    /\ UNCHANGED <<calculator, scraper, client>>

Next ==
    \/ Construct
    \/ GetPrice
    \/ CalcTinOre
    \/ CalcColtan
    \/ CalcMonazite
    \/ CalcTitanium
    \/ CalcZircon
    \/ CalcSpodumene
    \/ CalcLepidolite
    \/ CalcLeadOre
    \/ CalcZincOre
    \/ CalculateAll
    \/ Return

Spec == Init /\ [][Next]_vars

(***************************************************************************)
(* JSON, as json.dump writes it and json.load reads it.  A JSON text is a  *)
(* tree: an object is the sequence of its members in the order written, so *)
(* that a key written twice is in the text twice.  As above, an operator   *)
(* takes the values of its operands once and then works on those values.   *)
(***************************************************************************)
\* a Python list
List(l) == [t |-> "list", l |-> l]
\* exceptions
AttributeError == [t |-> "AttributeError"]
JSONDecodeError == [t |-> "JSONDecodeError"]
IsList(x) == x.t = "list"

RECURSIVE SeqOf(_)
\* the elements of a finite set, in one fixed order
SeqOf(S) ==
    IF S = {} THEN <<>>
    ELSE LET x == CHOOSE x \in S : TRUE IN <<x>> \o SeqOf(S \ {x})

\* the key json.dump writes for a dict key: a str as it is, None as "null"
KeyText(k) == IF k.t = "None" THEN "null" ELSE k.s

RECURSIVE dumps(_)
\* json.dumps(x); a dict is a model dict, whose keys are strings; a str is a
\* short string or a text in segments (see fetch_prices below)
dumps(a) ==
    CHOOSE r \in
        {CASE x.t = "None" -> [j |-> "null"]
           [] IsNum(x)     -> [j |-> "number", t |-> x.t, v |-> x.v]
           [] x.t = "str"  -> [j |-> "string", s |-> x.s]
           [] x.t = "text" -> [j |-> "string", segs |-> x.segs]
           [] x.t = "list" -> [j |-> "array", items |-> [i \in DOMAIN x.l |-> dumps(x.l[i])]]
           [] x.t = "dict" ->
                 [j |-> "object",
                  members |-> LET ks == SeqOf(DOMAIN x.d)
                              IN  [i \in DOMAIN ks |-> <<ks[i], dumps(x.d[ks[i]])>>]]
         : x \in {a}} : TRUE

\* the value of the last member with key k
LastMember(members, k) ==
    members[CHOOSE i \in DOMAIN members :
                /\ members[i][1] = k
                /\ \A n \in DOMAIN members : members[n][1] = k => n <= i][2]

RECURSIVE loads(_)
\* json.loads(text): of two members with one key the later one is kept
loads(a) ==
    CHOOSE r \in
        {CASE text.j = "null"   -> None
           [] text.j = "number" -> [t |-> text.t, v |-> text.v]
           [] text.j = "string" ->
                 IF "segs" \in DOMAIN text THEN [t |-> "text", segs |-> text.segs]
                 ELSE Str(text.s)
           [] text.j = "array"  -> List([i \in DOMAIN text.items |-> loads(text.items[i])])
           [] text.j = "object" ->
                 Dict([k \in {text.members[i][1] : i \in DOMAIN text.members} |->
                          loads(LastMember(text.members, k))])
         : text \in {a}} : TRUE

(***************************************************************************)
(* PriceScraper.save_prices (price_scraper.py).  A file is kept as the     *)
(* JSON text written to it.                                                 *)
(***************************************************************************)
DATA_DIR == "data"
PRICE_JSON_FILE == "data/price_history.json"

\* f"{date}"
FormatDate(a) ==
    CHOOSE r \in
        {CASE date.t = "str"  -> date.s
           [] date.t = "None" -> "None"
           [] date.t = "list" -> "[]"
         : date \in {a}} : TRUE
\* os.path.join(DATA_DIR, f"prices_{date}.json")
DailyFile(date) == DATA_DIR \o "/" \o "prices_" \o FormatDate(date) \o ".json"

\* open(path, "w") and json.dump(x, f)
WriteJson(a, path, text) ==
    CHOOSE r \in
        {[p \in DOMAIN fs \cup {q} |-> IF p = q THEN t ELSE fs[p]]
         : fs \in {a}, q \in {path}, t \in {text}} : TRUE

\* the history dict as save_prices has it in memory: {} or what json.load
\* read from PRICE_JSON_FILE
ReadHistory(a) ==
    CHOOSE r \in
        {IF PRICE_JSON_FILE \in DOMAIN fs THEN loads(fs[PRICE_JSON_FILE]) ELSE EmptyDict
         : fs \in {a}} : TRUE

\* json.dump of history after history[date] = price_data: a str date takes
\* the place of its key or is added; the key None is a key of its own,
\* added after the keys that were read, and written as "null"
HistoryText(a, b, c) ==
    CHOOSE r \in
        {IF date.t = "str"
         THEN dumps(Dict((date.s :> data) @@ history.d))
         ELSE [j |-> "object",
               members |-> dumps(history).members \o <<<<KeyText(date), dumps(data)>>>>]
         : history \in {a}, date \in {b}, data \in {c}} : TRUE

\* the history is started afresh on every call
save_prices_fresh_history(a, b, c) ==
    CHOOSE r \in
        {IF ~IsDict(data) THEN [raised |-> AttributeError, files |-> fs]
         ELSE LET date == Get(data, "date", Str(today))
                  daily == WriteJson(fs, DailyFile(date), dumps(data))
              IN  IF date.t \in {"list", "dict"}
                  THEN [raised |-> TypeError, files |-> daily]
                  ELSE [raised |-> None,
                        files |-> WriteJson(daily, PRICE_JSON_FILE,
                                            HistoryText(EmptyDict, date, data))]
         : fs \in {a}, data \in {b}, today \in {c}} : TRUE

\* save_prices(price_data) on the files fs, on the day today: the files it
\* leaves, and the exception it raised or None
save_prices(a, b, c) ==
    CHOOSE r \in
        {IF ~IsDict(data) THEN [raised |-> AttributeError, files |-> fs]
         ELSE LET date == Get(data, "date", Str(today))
                  daily == WriteJson(fs, DailyFile(date), dumps(data))
              IN  IF date.t \in {"list", "dict"}
                  THEN [raised |-> TypeError, files |-> daily]
                  ELSE [raised |-> None,
                        files |-> WriteJson(daily, PRICE_JSON_FILE,
                                            HistoryText(ReadHistory(daily), date, data))]
         : fs \in {a}, data \in {b}, today \in {c}} : TRUE

(***************************************************************************)
(* PriceScraper.fetch_prices and run.  A text (a Python str that holds a   *)
(* response) is a sequence of segments: prose (words without braces or     *)
(* backticks), a code fence (``` or ```json) or a JSON document.  Short    *)
(* strings inside documents are Str values.                                *)
(***************************************************************************)
Text(segs) == [t |-> "text", segs |-> segs]
Prose(prices) == [k |-> "prose", prices |-> prices]
Fence(lang) == [k |-> "fence", lang |-> lang]
Doc(x) == [k |-> "doc", json |-> dumps(x)]
\* isinstance(x, str)
IsStr(x) == x.t \in {"str", "text"}
\* the dict fetch_prices and _parse_json_from_text return for a failure
ErrorDict(message) == Dict(("error" :> Str(message)) @@ ("raw" :> Str("...")))

RECURSIVE JsonHasBrace(_)
\* "{" in the JSON text
JsonHasBrace(a) ==
    \E text \in {a} :
        CASE text.j = "object" -> TRUE
          [] text.j = "array"  -> \E i \in DOMAIN text.items : JsonHasBrace(text.items[i])
          [] text.j = "string" ->
                /\ "segs" \in DOMAIN text
                /\ \E i \in DOMAIN text.segs :
                      text.segs[i].k = "doc" /\ JsonHasBrace(text.segs[i].json)
          [] OTHER             -> FALSE
RECURSIVE JsonHasPrices(_)
\* "prices" in the JSON text: in one of its keys
JsonHasPrices(a) ==
    \E text \in {a} :
        CASE text.j = "object" ->
                \E i \in DOMAIN text.members :
                    \/ text.members[i][1] \in {"smm_prices", "lme_prices"}
                    \/ JsonHasPrices(text.members[i][2])
          [] text.j = "array"  -> \E i \in DOMAIN text.items : JsonHasPrices(text.items[i])
          [] text.j = "string" ->
                /\ "segs" \in DOMAIN text
                /\ \E i \in DOMAIN text.segs :
                      \/ text.segs[i].k = "doc" /\ JsonHasPrices(text.segs[i].json)
                      \/ text.segs[i].k = "prose" /\ text.segs[i].prices
          [] OTHER             -> FALSE
\* "{" in part, "prices" in part, for a run of segments
HasBrace(a) ==
    \E segs \in {a} : \E i \in DOMAIN segs : segs[i].k = "doc" /\ JsonHasBrace(segs[i].json)
HasPrices(a) ==
    \E segs \in {a} :
        \E i \in DOMAIN segs :
            \/ segs[i].k = "doc" /\ JsonHasPrices(segs[i].json)
            \/ segs[i].k = "prose" /\ segs[i].prices
\* "{" in x for a str x
StrHasBrace(a) == \E x \in {a} : x.t = "text" /\ HasBrace(x.segs)

\* the positions of the fences, of the ```json fences
Fences(a) == CHOOSE r \in {{i \in DOMAIN segs : segs[i].k = "fence"} : segs \in {a}} : TRUE
JsonFences(a) ==
    CHOOSE r \in {{i \in Fences(segs) : segs[i].lang = "json"} : segs \in {a}} : TRUE
Min(S) == CHOOSE x \in S : \A y \in S : x <= y
\* text.split("```json")[1].split("```")[0]
AfterJsonFence(a) ==
    CHOOSE r \in
        {LET first == Min(JsonFences(segs))
             later == {i \in Fences(segs) : i > first}
             next == IF later = {} THEN Len(segs) + 1 ELSE Min(later)
         IN  SubSeq(segs, first + 1, next - 1)
         : segs \in {a}} : TRUE
\* text.split("```"): the runs of segments between the fences
Parts(a) ==
    CHOOSE r \in
        {{[from |-> c,
           part |-> SubSeq(segs, c + 1,
                           Min({d \in Fences(segs) \cup {Len(segs) + 1} : d > c}) - 1)]
             : c \in Fences(segs) \cup {0}}
         : segs \in {a}} : TRUE
\* the first part with "{" and "prices" in it, the whole text when none has
FencedPart(a) ==
    CHOOSE r \in
        {LET good == {p \in Parts(segs) : HasBrace(p.part) /\ HasPrices(p.part)}
         IN  IF good = {} THEN segs
             ELSE (CHOOSE p \in good : \A q \in good : p.from <= q.from).part
         : segs \in {a}} : TRUE
\* text[text.find("{") : text.rfind("}") + 1] of a text without fences: the
\* object itself when the braces are those of one document that is an object
\* or an array of one object; anything else that has braces is cut to a
\* string that is not JSON; a text without braces is taken whole
BraceSlice(a) ==
    CHOOSE r \in
        {LET braced == {i \in DOMAIN segs : segs[i].k = "doc" /\ JsonHasBrace(segs[i].json)}
         IN  IF braced = {} THEN segs
             ELSE IF Cardinality(braced) = 1
             THEN LET d == segs[CHOOSE i \in braced : TRUE].json
                  IN  IF d.j = "object" THEN <<[k |-> "doc", json |-> d]>>
                      ELSE IF Len(d.items) = 1 /\ d.items[1].j = "object"
                      THEN <<[k |-> "doc", json |-> d.items[1]]>>
                      ELSE <<Prose(FALSE)>>
             ELSE <<Prose(FALSE)>>
         : segs \in {a}} : TRUE
\* json.loads(json_str.strip())
LoadsStr(a) ==
    CHOOSE r \in
        {IF Len(segs) = 1 /\ segs[1].k = "doc" THEN loads(segs[1].json) ELSE JSONDecodeError
         : segs \in {a}} : TRUE

\* _parse_json_from_text(text): what it returns, and what it wrote to
\* debug_last_response.txt (Absent: nothing)
_parse_json_from_text(a) ==
    CHOOSE r \in
        {IF IsDict(text) THEN [ret |-> text, debug |-> Absent]
         ELSE IF IsList(text) THEN [ret |-> ErrorDict("list"), debug |-> text]
         ELSE LET segs == IF text.t = "text" THEN text.segs ELSE <<Doc(text)>>
                  json_str == IF JsonFences(segs) # {} THEN AfterJsonFence(segs)
                              ELSE IF Fences(segs) # {} THEN FencedPart(segs)
                              ELSE BraceSlice(segs)
                  value == LoadsStr(json_str)
              IN  IF value = JSONDecodeError
                  THEN [ret |-> ErrorDict("JSON"), debug |-> text]
                  ELSE [ret |-> value, debug |-> Absent]
         : text \in {a}} : TRUE

\* item.get("text") or item.get("content") or item.get("message")
ItemText(a) ==
    CHOOSE r \in
        {PyOr(PyOr(Get(item, "text", None), Get(item, "content", None)),
              Get(item, "message", None))
         : item \in {a}} : TRUE
RECURSIVE ExtractFromList(_, _)
\* the loop of _extract_text_content over the items of a list, from item i
ExtractFromList(a, i) ==
    CHOOSE r \in
        {IF i > Len(result.l) THEN Text(<<Doc(result)>>)
         ELSE LET item == result.l[i]
              IN  IF IsDict(item)
                  THEN IF Has(item, "smm_prices") \/ Has(item, "lme_prices")
                       THEN Text(<<Doc(item)>>)
                       ELSE IF Truthy(ItemText(item)) /\ StrHasBrace(ItemText(item))
                       THEN ItemText(item)
                       ELSE ExtractFromList(result, i + 1)
                  ELSE IF StrHasBrace(item) THEN item
                  ELSE ExtractFromList(result, i + 1)
         : result \in {a}} : TRUE
\* _extract_text_content(result)
_extract_text_content(a) ==
    CHOOSE r \in
        {IF IsStr(result) THEN result
         ELSE IF IsDict(result)
         THEN IF Has(result, "smm_prices") \/ Has(result, "lme_prices") \/ Has(result, "date")
              THEN Text(<<Doc(result)>>)
              ELSE PyOr(PyOr(PyOr(PyOr(Get(result, "text", None),
                                       Get(result, "content", None)),
                                  Get(result, "message", None)),
                             Get(result, "output", None)),
                        Text(<<Doc(result)>>))
         ELSE IF IsList(result) THEN ExtractFromList(result, 1)
         ELSE IF Truthy(result) THEN Text(<<Doc(result)>>) ELSE None
         : result \in {a}} : TRUE

\* "error" in x: "yes", "no", or "TypeError" when x is not a container
ErrorIn(a) ==
    CHOOSE r \in
        {CASE IsDict(x) -> IF Has(x, "error") THEN "yes" ELSE "no"
           [] IsList(x) -> IF \E i \in DOMAIN x.l : x.l[i] = Str("error") THEN "yes" ELSE "no"
           [] x.t = "str" -> IF x.s = "error" THEN "yes" ELSE "no"
           [] OTHER     -> "TypeError"
         : x \in {a}} : TRUE

DebugFile == DATA_DIR \o "/" \o "debug_last_response.txt"
\* f.write(str(text)) to debug_last_response.txt when the parser wrote it
WriteDebug(a, b) ==
    CHOOSE r \in
        {IF debug.t = "absent" THEN fs
         ELSE [p \in DOMAIN fs \cup {DebugFile} |->
                  IF p = DebugFile THEN [j |-> "raw", text |-> debug] ELSE fs[p]]
         : fs \in {a}, debug \in {b}} : TRUE

\* what self.client.run_task(prompt) did: raised, or returned result
RunTaskRaised == [raised |-> TRUE, result |-> None]
RunTaskReturned(result) == [raised |-> FALSE, result |-> result]

\* fetch_prices() on the files fs when run_task did outcome: the dict (or
\* other value) it returns and the files it leaves
fetch_prices(a, b) ==
    CHOOSE r \in
        {IF outcome.raised THEN [ret |-> ErrorDict("exception"), files |-> fs]
         ELSE LET text_content == _extract_text_content(outcome.result)
              IN  IF ~Truthy(text_content)
                  THEN [ret |-> ErrorDict("parse"), files |-> fs]
                  ELSE LET parsed == _parse_json_from_text(text_content)
                           after == WriteDebug(fs, parsed.debug)
                       IN  IF ~Truthy(parsed.ret)
                           THEN [ret |-> ErrorDict("parse"), files |-> after]
                           ELSE IF ErrorIn(parsed.ret) = "TypeError"
                           THEN [ret |-> ErrorDict("exception"), files |-> after]
                           ELSE IF ErrorIn(parsed.ret) = "no"
                           THEN [ret |-> parsed.ret, files |-> after]
                           ELSE [ret |-> ErrorDict("parse"), files |-> after]
         : fs \in {a}, outcome \in {b}} : TRUE

\* run(): fetched is what fetch_prices returned, ret what run returns or the
\* exception that leaves it, files the files it leaves.  print_prices writes
\* no file.
run(a, b, c) ==
    CHOOSE r \in
        {IF ErrorIn(fetched.ret) = "no"
         THEN LET saved == save_prices(fetched.files, fetched.ret, today)
              IN  [fetched |-> fetched.ret,
                   ret |-> IF IsNone(saved.raised) THEN fetched.ret ELSE saved.raised,
                   files |-> saved.files]
         ELSE [fetched |-> fetched.ret, ret |-> fetched.ret, files |-> fetched.files]
         : fetched \in {fetch_prices(a, b)}, today \in {c}} : TRUE

(***************************************************************************)
(* The scraper's state machine: a constructed PriceScraper whose run and   *)
(* save_prices are called one at a time on the files of the data           *)
(* directory, which starts empty.                                          *)
(***************************************************************************)
\* how many save_prices calls are followed
MaxSaves == 2

\* datetime.now().strftime("%Y-%m-%d")
Days == {"2026-01-05", "2026-01-06"}
\* the "date" of a scraped document: left out, null, a day, or a list
ScrapedDates == {Absent, None, List(<<>>)} \cup {Str(d) : d \in Days}
\* a scraped snapshot with the given date and tin price
Scraped(date, price) ==
    Dict(Opt("date", date) @@
         ("smm_prices" :> Dict("tin" :> PriceRecord(price, Absent))) @@
         ("exchange_rates" :> TypicalRates))
TypicalScraped == Scraped(Str("2026-01-05"), LevelPrice("tin", 2))
\* a document of every kind of date, and a second one for one of the days
ScrapedSnapshots ==
    {Scraped(d, LevelPrice("tin", 2)) : d \in ScrapedDates} \cup
    {Scraped(Str("2026-01-05"), LevelPrice("tin", 1))}

\* the ways a response text may carry the document x
Responses(x) ==
    {Text(<<Doc(x)>>),
     Text(<<Prose(TRUE), Doc(x), Prose(FALSE)>>),
     Text(<<Prose(FALSE), Fence("json"), Doc(x), Fence(""), Prose(TRUE)>>),
     Text(<<Prose(FALSE), Fence(""), Doc(x), Fence("")>>),
     Text(<<Prose(FALSE), Fence(""), Prose(TRUE), Doc(x), Fence("")>>)}
\* what run_task may return: the text of the output file or of a message,
\* or the task's output as it is
TaskResults ==
    {Text(<<Doc(x)>>) : x \in ScrapedSnapshots} \cup
    Responses(TypicalScraped) \cup
    Responses(List(<<TypicalScraped>>)) \cup
    UNION {{Text(<<Doc(x)>>),
            Text(<<Prose(FALSE), Fence("json"), Doc(x), Fence(""), Prose(TRUE)>>)}
              : x \in {Dict("error" :> Str("blocked")), Str("n/a")}} \cup
    {Text(<<>>), Text(<<Prose(TRUE)>>), Text(<<Doc(IntV(5))>>),
     Text(<<Doc(TypicalScraped), Doc(TypicalScraped)>>),
     None, List(<<>>), List(<<Dict("role" :> Str("assistant"))>>),
     List(<<Str("n/a"), TypicalScraped>>),
     List(<<Dict("text" :> Text(<<Doc(TypicalScraped)>>))>>),
     TypicalScraped,
     Dict("text" :> Text(<<Doc(TypicalScraped)>>)),
     Dict("content" :> List(<<Str("n/a")>>)),
     Dict("output" :> TypicalScraped)}
RunTaskOutcomes == {RunTaskRaised} \cup {RunTaskReturned(r) : r \in TaskResults}

\* the save_prices call that returned, as the log keeps it
Saved(data, today) == [date |-> Get(data, "date", Str(today)), price_data |-> data]

ScraperInit ==
    /\ CNY_NGN_OVERRIDE = None
    /\ price_data = None
    /\ pc = "ready"
    /\ self = NoObject
    /\ call = NoCall
    /\ ret = None
    /\ NoFilesYet
    /\ ClockAtStart

\* scraper.save_prices(price_data)
SavePrices ==
    /\ pc = "ready"
    /\ Len(saves) < MaxSaves
    /\ \E data \in ScrapedSnapshots, today \in Days :
          LET r == save_prices(files, data, today)
          IN  /\ call' = [op |-> "save_prices", price_data |-> data, today |-> today]
              /\ ret' = r.raised
              /\ files' = r.files
              /\ saves' = IF IsNone(r.raised) THEN Append(saves, Saved(data, today))
                          ELSE saves
    /\ pc' = "returned"
    /\ UNCHANGED <<calculator, client>>

\* scraper.run()
Run ==
    /\ pc = "ready"
    /\ Len(saves) < MaxSaves
    /\ \E outcome \in RunTaskOutcomes, today \in Days :
          LET r == run(files, outcome, today)
          IN  /\ call' = [op |-> "run", outcome |-> outcome, fetched |-> r.fetched,
                          today |-> today]
              /\ ret' = r.ret
              /\ files' = r.files
              /\ saves' = IF r.ret = r.fetched /\ ErrorIn(r.fetched) = "no"
                          THEN Append(saves, Saved(r.fetched, today))
                          ELSE saves
    /\ pc' = "returned"
    /\ UNCHANGED <<calculator, client>>

ScraperNext ==
    \/ SavePrices
    \/ Run
    \/ Return

ScraperSpec == ScraperInit /\ [][ScraperNext]_vars

(***************************************************************************)
(* ManusClient.wait_for_task (manus_client.py): the polling loop, one step *)
(* per loop test, status request and sleep.  Time is in whole seconds.     *)
(***************************************************************************)
TASK_TIMEOUT == 600
TASK_CHECK_INTERVAL == 15

\* an int argument, in seconds
Secs(n) == [t |-> "int", n |-> n]
\* arg or default
OrDefault(arg, default) ==
    IF arg.t = "None" THEN default ELSE IF arg.n = 0 THEN default ELSE arg.n

\* exceptions
TimeoutError == [t |-> "TimeoutError"]
TaskFailed == [t |-> "Exception", what |-> "task failed"]
StatusRequestFailed == [t |-> "Exception", what |-> "status request failed"]

\* s.lower()
Lower(s) ==
    CASE s = "Completed" -> "completed"
      [] s = "FAILED"    -> "failed"
      [] OTHER           -> s

\* the output_file items of the output list that have a fileUrl: those in a
\* message's content and the messages that are one themselves
IsOutputFile(item) ==
    IsDict(item) /\ Get(item, "type", None) = Str("output_file")
                 /\ Truthy(Get(item, "fileUrl", None))
ContentOf(msg) ==
    IF IsDict(msg) /\ IsList(Get(msg, "content", List(<<>>)))
    THEN Get(msg, "content", List(<<>>)).l ELSE <<>>
HasOutputFile(output) ==
    \E i \in DOMAIN output.l :
        \/ \E n \in DOMAIN ContentOf(output.l[i]) : IsOutputFile(ContentOf(output.l[i])[n])
        \/ IsOutputFile(output.l[i])
\* an output_text item whose text has "{" and "prices" in it
IsPriceText(item) ==
    /\ IsDict(item) /\ Get(item, "type", None) = Str("output_text")
    /\ \E text \in {Get(item, "text", Str(""))} :
          text.t = "text" /\ HasBrace(text.segs) /\ HasPrices(text.segs)
PriceTexts(output) ==
    {<<i, n>> \in (DOMAIN output.l) \X (1..3) :
        n \in DOMAIN ContentOf(output.l[i]) /\ IsPriceText(ContentOf(output.l[i])[n])}
FirstPriceText(output) ==
    LET at == CHOOSE a \in PriceTexts(output) :
                  \A b \in PriceTexts(output) : a[1] < b[1] \/ (a[1] = b[1] /\ a[2] <= b[2])
    IN  Get(ContentOf(output.l[at[1]])[at[2]], "text", None)

\* what wait_for_task returns for the completed task's result, download being
\* what requests.get(file_url) gave: the file's text, or Absent for a status
\* other than 200 or an exception
TaskOutput(result, download) ==
    LET output == Get(result, "output", List(<<>>))
    IN  IF ~IsList(output) THEN output
        ELSE IF HasOutputFile(output) /\ download.t # "absent" THEN download
        ELSE IF PriceTexts(output) # {} THEN FirstPriceText(output)
        ELSE output

\* one status request answered with response, the file download (if any)
\* with download: the status observed (lower case), and what wait_for_task
\* does next: "return" ret, "raise" ret, or "sleep"
poll(response, download) ==
    IF response.t = "absent" THEN [status |-> None, then |-> "raise", ret |-> StatusRequestFailed]
    ELSE IF ~IsDict(response)
    THEN [status |-> None, then |-> "raise", ret |-> AttributeError]
    ELSE LET raw == Get(response, "status", Str(""))
         IN  IF raw.t # "str" THEN [status |-> None, then |-> "raise", ret |-> AttributeError]
             ELSE LET st == Lower(raw.s)
                  IN  IF st = "completed" \/ st = "success"
                      THEN [status |-> Str(st), then |-> "return",
                            ret |-> TaskOutput(response, download)]
                      ELSE IF st \in {"error", "failed"}
                      THEN [status |-> Str(st), then |-> "raise", ret |-> TaskFailed]
                      ELSE [status |-> Str(st), then |-> "sleep", ret |-> None]

\* the arguments wait_for_task is called with
TimeoutArgs == {None, Secs(0), Secs(45)}
IntervalArgs == {None, Secs(0), Secs(20)}
\* how long a status request takes
Latencies == {0, 2}
\* the task results get_task_status answers with (Absent: the request failed)
TaskFile == Dict(("type" :> Str("output_file")) @@ ("fileUrl" :> Str("https://files/result.json")))
TaskText(text) == Dict(("type" :> Str("output_text")) @@ ("text" :> text))
Message(content) == Dict(("role" :> Str("assistant")) @@ ("content" :> List(content)))
Outputs ==
    {Absent, None, List(<<>>), Str("done"),
     List(<<Message(<<TaskFile>>)>>),
     List(<<TaskFile>>),
     List(<<Message(<<TaskText(Text(<<Prose(TRUE)>>)), TaskText(Text(<<Doc(TypicalScraped)>>))>>)>>),
     List(<<Message(<<TaskFile, TaskText(Text(<<Doc(TypicalScraped)>>))>>)>>)}
StatusResponses ==
    {Absent, List(<<>>), Dict("status" :> None), Dict("id" :> Str("t1"))} \cup
    {Dict("status" :> Str(st)) :
        st \in {"running", "pending", "error", "failed", "FAILED"}} \cup
    {Dict(("status" :> Str(st)) @@ Opt("output", o)) :
        st \in {"completed", "Completed", "success"}, o \in Outputs}
Downloads == {Absent, Text(<<Doc(TypicalScraped)>>)}

ClientInit ==
    /\ CNY_NGN_OVERRIDE = None
    /\ price_data = None
    /\ pc = "ready"
    /\ self = NoObject
    /\ call = NoCall
    /\ ret = None
    /\ NoFilesYet
    /\ now \in {0, 100}
    /\ start_time = 0 /\ polls = 0 /\ status = None

\* client.wait_for_task(task_id, timeout, interval) up to the loop
WaitForTask ==
    /\ pc = "ready"
    /\ \E timeout \in TimeoutArgs, interval \in IntervalArgs :
          call' = [op |-> "wait_for_task",
                   timeout |-> OrDefault(timeout, TASK_TIMEOUT),
                   interval |-> OrDefault(interval, TASK_CHECK_INTERVAL)]
    /\ start_time' = now
    /\ pc' = "while"
    /\ UNCHANGED <<calculator, scraper, ret, now, polls, status>>

\* while time.time() - start_time < timeout, and the raise after the loop
WhileTest ==
    /\ pc = "while"
    /\ IF now - start_time < call.timeout
       THEN pc' = "poll" /\ ret' = ret
       ELSE pc' = "returned" /\ ret' = TimeoutError
    /\ UNCHANGED <<calculator, scraper, call, now, start_time, polls, status>>

\* result = self.get_task_status(task_id) and the branch on its status
Poll ==
    /\ pc = "poll"
    /\ \E response \in StatusResponses, download \in Downloads, latency \in Latencies :
          LET r == poll(response, download)
          IN  /\ now' = now + latency
              /\ status' = r.status
              /\ ret' = r.ret
              /\ pc' = IF r.then = "sleep" THEN "sleep" ELSE "returned"
    /\ polls' = polls + 1
    /\ UNCHANGED <<calculator, scraper, call, start_time>>

\* time.sleep(interval)
Sleep ==
    /\ pc = "sleep"
    /\ now' = now + call.interval
    /\ pc' = "while"
    /\ UNCHANGED <<calculator, scraper, call, ret, start_time, polls, status>>

ClientNext ==
    \/ WaitForTask
    \/ WhileTest
    \/ Poll
    \/ Sleep

ClientSpec == ClientInit /\ [][ClientNext]_vars
\* every step of the loop is taken in the end: a status request is answered
\* and a sleep ends
LiveClientSpec == ClientSpec /\ WF_vars(ClientNext)

(***************************************************************************)
(* Properties.                                                             *)
(***************************************************************************)
\* the constructor has returned an object
Constructed == pc \in {"ready", "returned"}
Returned(op) == pc = "returned" /\ call.op = op

\* two Python values are the same number, or the same non-number
SameNum(a, b) ==
    \E x \in {a}, y \in {b} :
        IF IsNum(x) /\ IsNum(y) THEN RatCmp[x.v, y.v] = 0 ELSE x.t = y.t
Positive(a) == \E x \in {a} : IsNum(x) /\ RatSign[x.v] > 0
Negative(a) == \E x \in {a} : IsNum(x) /\ RatSign[x.v] < 0
\* the int 0 that the strategies return for "no usable price"
IsZero(a) == \E x \in {a} : IsNum(x) /\ RatSign[x.v] = 0

\* the snapshot's exchange_rates entry k, Absent when it has none
RateEntry(data, k) ==
    Get(Get(data, "exchange_rates", EmptyDict), k, Absent)
\* the snapshot with its exchange_rates entry k replaced by e
WithRate(data, k, e) ==
    Dict(Deviate(data.d, "exchange_rates",
                 Dict(Deviate(Get(data, "exchange_rates", EmptyDict).d, k, e))))

\* C1: after construction USD_NGN == CNY_NGN * USD_CNY, and USD_NGN is the
\* same whatever the snapshot's own usd_ngn entry is (absent, null, a number,
\* a record with or without a rate).  The comparison is made in the state a
\* construction leaves; no strategy changes the rates afterwards.
C1_UsdNgnIsTheProduct ==
    Constructed =>
        /\ IsNum(self.USD_NGN)
        /\ SameNum(self.USD_NGN, PyMul(self.CNY_NGN, self.USD_CNY))
        /\ pc = "ready" =>
               \A e \in RateEntries(FloatV(1487, 1)) :
                   SameNum(__init__(WithRate(price_data, "usd_ngn", e), CNY_NGN_OVERRIDE).USD_NGN,
                           self.USD_NGN)

\* a constructed calculator whose snapshot supplies a usd_ngn number that is
\* not the product of the two resolved rates
C1_Witness ==
    /\ pc = "ready"
    /\ IsNum(RateEntry(price_data, "usd_ngn"))
    /\ IsNum(self.USD_NGN)
    /\ ~SameNum(RateEntry(price_data, "usd_ngn"), self.USD_NGN)

\* what the claim C2 says CNY_NGN resolves to when no override is configured;
\* a null entry or a null rate is not a value the claim speaks of
SnapshotCnyNgn(data) ==
    LET e == RateEntry(data, "cny_ngn")
    IN  CASE e.t = "absent" -> FloatV(21235, 100)
          [] IsNum(e) -> e
          [] IsDict(e) /\ ~Has(e, "rate") -> FloatV(21235, 100)
          [] IsDict(e) /\ Has(e, "rate") -> e.d["rate"]
          [] OTHER -> None

\* C2: with an override configured the resolved CNY_NGN is the override,
\* whatever the snapshot's cny_ngn entry is; with none it is the snapshot's
\* bare number or record rate, or 212.35 when the entry is missing.
C2_OverrideReplacesSnapshot ==
    Constructed =>
        /\ IsNum(self.CNY_NGN)
        /\ IF ~IsNone(CNY_NGN_OVERRIDE)
           THEN /\ SameNum(self.CNY_NGN, CNY_NGN_OVERRIDE)
                /\ self.CNY_NGN_SOURCE = "Manual Override"
           ELSE /\ SameNum(self.CNY_NGN, SnapshotCnyNgn(price_data))
                /\ self.CNY_NGN_SOURCE = "Auto"

\* an override is configured and the snapshot carries a different rate
C2_Witness ==
    /\ pc = "ready"
    /\ ~IsNone(CNY_NGN_OVERRIDE)
    /\ IsDict(RateEntry(price_data, "cny_ngn"))
    /\ Has(RateEntry(price_data, "cny_ngn"), "rate")
    /\ IsNum(RateEntry(price_data, "cny_ngn").d["rate"])
    /\ ~SameNum(RateEntry(price_data, "cny_ngn").d["rate"], self.CNY_NGN)

\* C3: construction never raises and leaves three numbers, for every
\* exchange_rates mapping whose entries are absent, null, a number or a
\* record with or without a (possibly null) rate.
C3_ConstructionNeverRaises ==
    pc # "start" =>
        /\ pc # "raised"
        /\ IsNum(self.USD_NGN) /\ IsNum(self.USD_CNY) /\ IsNum(self.CNY_NGN)

\* a stored value that is a price: a number other than 0
Usable(a) == \E x \in {a} : IsNum(x) /\ RatSign[x.v] # 0
\* the usable value of the record at key k: its field, else its "price"
RecordValue(obj, k, field) ==
    LET data == Get(obj.smm, k, EmptyDict)
    IN  IF ~IsDict(data) THEN None
        ELSE IF Usable(Get(data, field, None)) THEN Get(data, field, None)
        ELSE IF Usable(Get(data, "price", None)) THEN Get(data, "price", None)
        ELSE None
\* the value of the first candidate key whose record has a usable value
RECURSIVE FirstUsable(_, _, _)
FirstUsable(obj, field, keys) ==
    IF keys = <<>> THEN None
    ELSE IF ~IsNone(RecordValue(obj, Head(keys), field))
         THEN RecordValue(obj, Head(keys), field)
         ELSE FirstUsable(obj, field, Tail(keys))

\* a record without the fields that hold 0
StripZeros(rec) ==
    IF ~IsDict(rec) THEN rec
    ELSE Dict([f \in {g \in DOMAIN rec.d : ~IsZero(rec.d[g])} |-> rec.d[f]])
\* the calculator over the same smm_prices with every stored 0 left out
ZerosAbsent(obj) ==
    [obj EXCEPT !.smm = Dict([k \in DOMAIN obj.smm.d |-> StripZeros(obj.smm.d[k])])]

\* C4: _get_price returns None or a non-zero number, and returns the same
\* for a snapshot as for that snapshot with its stored 0 prices left out.
C4_ZeroIsAbsence ==
    Returned("_get_price") =>
        /\ IsNone(ret) \/ Usable(ret)
        /\ SameNum(ret, _get_price(ZerosAbsent(self), call.key, call.field,
                                   call.fallback_keys))

\* C5: _get_price returns the usable value of the first of the primary key
\* and the fallback keys, in list order, whose record has one in its field
\* or its "price", and None only when none has.
C5_FallsBackOnEveryMiss ==
    Returned("_get_price") =>
        SameNum(ret, FirstUsable(self, call.field, <<call.key>> \o call.fallback_keys))

Strategies ==
    {"calc_tin_ore", "calc_coltan", "calc_monazite", "calc_titanium", "calc_zircon",
     "calc_spodumene", "calc_lepidolite", "calc_lead_ore", "calc_zinc_ore"}
\* the reference price each strategy asks _get_price for
RequiredPrice(obj, op) ==
    CASE op = "calc_tin_ore"    -> _get_price(obj, "tin", "price_avg", <<>>)
      [] op = "calc_coltan"     -> _get_price(obj, "tantalum_oxide", "price_avg", <<>>)
      [] op = "calc_monazite"   -> _get_price(obj, "monazite_concentrate", "price_avg",
                                              <<"monazite", "monazite_concentrate">>)
      [] op = "calc_titanium"   -> _get_price(obj, "titanium_concentrate", "price_avg", <<>>)
      [] op = "calc_zircon"     -> _get_price(obj, "zircon_sand", "price_avg", <<>>)
      [] op = "calc_spodumene"  -> _get_price(obj, "spodumene", "price_avg", <<>>)
      [] op = "calc_lepidolite" -> _get_price(obj, "lithium_carbonate", "price_avg", <<>>)
      [] op = "calc_lead_ore"   -> _get_price(obj, "lead", "price_avg", <<>>)
      [] op = "calc_zinc_ore"   -> _get_price(obj, "zinc", "price_avg", <<>>)

\* C6: a strategy whose reference price _get_price reports as None returns
\* exactly 0, at every grade.
C6_MissingPriceGivesZero ==
    (pc = "returned" /\ call.op \in Strategies /\ IsNone(RequiredPrice(self, call.op)))
        => (ret.t = "int" /\ IsZero(ret))

\* calc_lepidolite has returned for a snapshot without a usable
\* lithium_carbonate price
C6_Witness ==
    /\ Returned("calc_lepidolite")
    /\ IsNone(RequiredPrice(self, "calc_lepidolite"))
    /\ IsZero(ret)

\* the commodities of the result table, the strategy behind each and its
\* grade labels
TableStrategy ==
    [tin_ore |-> "calc_tin_ore", coltan |-> "calc_coltan", monazite |-> "calc_monazite",
     titanium |-> "calc_titanium", zircon |-> "calc_zircon",
     spodumene |-> "calc_spodumene", lepidolite |-> "calc_lepidolite",
     lead_ore |-> "calc_lead_ore", zinc_ore |-> "calc_zinc_ore"]
TableLabels ==
    [tin_ore |-> {"60%", "65%", "70%", "75%"}, coltan |-> {"20%", "25%", "30%", "35%"},
     monazite |-> {"30%", "40%", "45%", "50%", "60%"}, titanium |-> {"50%"},
     zircon |-> {"65%"}, spodumene |-> {"3%", "4%", "5%", "6%"},
     lepidolite |-> {"2.0%", "2.5%", "3.0%"}, lead_ore |-> {"40%", "50%", "60%"},
     zinc_ore |-> {"40%", "50%", "60%"}]

\* C7: calculate_all returns, without an error anywhere in the result, the
\* table of all nine commodities, each with its fixed grade labels and a
\* number at each, the number 0 where the commodity's price is missing.
C7_CompleteTable ==
    Returned("calculate_all") =>
        /\ DOMAIN ret.max_purchase_prices = DOMAIN TableLabels
        /\ \A c \in DOMAIN TableLabels :
              /\ DOMAIN ret.max_purchase_prices[c].grades = TableLabels[c]
              /\ \A l \in TableLabels[c] :
                    /\ IsNum(ret.max_purchase_prices[c].grades[l])
                    /\ IsNone(RequiredPrice(self, TableStrategy[c]))
                          => IsZero(ret.max_purchase_prices[c].grades[l])
        /\ \A k \in DOMAIN ret.source_prices :
              IsNone(ret.source_prices[k].price) \/ IsNum(ret.source_prices[k].price)

\* calculate_all has returned for a snapshot in which one record is not a
\* mapping and the tin price is missing
C7_Witness ==
    /\ Returned("calculate_all")
    /\ \E k \in DOMAIN self.smm.d : ~IsDict(self.smm.d[k])
    /\ IsNone(RequiredPrice(self, "calc_tin_ore"))
    /\ IsZero(ret.max_purchase_prices.tin_ore.grades["70%"])
    /\ Positive(ret.max_purchase_prices.zinc_ore.grades["50%"])

LinearStrategies == {"calc_tin_ore", "calc_lead_ore", "calc_zinc_ore"}
\* the strategy op at grade g
Linear(op, obj, g) ==
    CASE op = "calc_tin_ore"  -> calc_tin_ore(obj, g)
      [] op = "calc_lead_ore" -> calc_lead_ore(obj, g)
      [] op = "calc_zinc_ore" -> calc_zinc_ore(obj, g)

MonaziteFob(obj, g) ==
    PySub(PyMul(PyMul(RequiredPrice(obj, "calc_monazite"), obj.USD_NGN),
                PyDiv(g, IntV(60))),
          LOGISTICS_COST_SEA)

\* C9: calc_monazite never returns a negative number, and returns exactly 0
\* whenever the FOB value before VAT is <= 0.
C9_MonaziteNeverNegative ==
    Returned("calc_monazite") =>
        /\ IsNum(ret) /\ ~Negative(ret)
        /\ (/\ ~IsNone(RequiredPrice(self, "calc_monazite"))
            /\ ~Positive(MonaziteFob(self, call.grade)))
              => (ret.t = "int" /\ IsZero(ret))

\* calc_monazite has returned 0 for a present, positive reference price that
\* does not cover the logistics cost
C9_Witness ==
    /\ Returned("calc_monazite")
    /\ Positive(RequiredPrice(self, "calc_monazite"))
    /\ Negative(MonaziteFob(self, call.grade))
    /\ IsZero(ret)

\* a record with its price fields doubled
DoubledRecord(rec) ==
    Dict([f \in DOMAIN rec.d |->
             IF f \in {"price_avg", "price"} /\ IsNum(rec.d[f])
             THEN PyMul(rec.d[f], IntV(2)) ELSE rec.d[f]])
\* the calculator over the same snapshot with the lithium_carbonate price doubled
DoubledCarbonate(obj) ==
    [obj EXCEPT !.smm.d["lithium_carbonate"] = DoubledRecord(@)]

TinExample ==
    /\ SameNum(RequiredPrice(self, "calc_tin_ore"), IntV(30000))
    /\ SameNum(self.CNY_NGN, IntV(216))
    /\ SameNum(self.USD_CNY, FloatV(7504, 1000))
\* the locals of calc_tin_ore(70) in the example
TinExampleLocals == calc_tin_ore_locals(self, RequiredPrice(self, "calc_tin_ore"), IntV(70))

\* C11 as stated: USD_NGN = 1,620.84, China price 34,037,640, FOB 33,957,331,
\* per-tonne price 30,050,735 (to the whole NGN), reported "70%" price 30,051.
C11_TinExampleAsStated ==
    (Returned("calculate_all") /\ TinExample) =>
        /\ SameNum(self.USD_NGN, FloatV(162084, 100))
        /\ SameNum(TinExampleLocals.china_price_ngn, IntV(34037640))
        /\ SameNum(TinExampleLocals.fob_price_ngn, IntV(33957331))
        /\ SameNum(PyRound0(TinExampleLocals.max_price_ngn_per_ton), IntV(30050735))
        /\ SameNum(ret.max_purchase_prices.tin_ore.grades["70%"], IntV(30051))

\* C11, amended: with tin at 30,000 USD/mt, grade 70%, CNY_NGN = 216 and
\* USD_CNY = 7.504, USD_NGN is 1,620.864, the China price 34,038,144, the FOB
\* value 33,957,835, the per-tonne price 30,051,181 to the whole NGN, and the
\* reported tin_ore price at "70%" is 30,051, the rounding of calc_tin_ore(70).
C11_TinExample ==
    (Returned("calculate_all") /\ TinExample) =>
        /\ SameNum(self.USD_NGN, FloatV(1620864, 1000))
        /\ SameNum(TinExampleLocals.china_price_ngn, IntV(34038144))
        /\ SameNum(TinExampleLocals.fob_price_ngn, IntV(33957835))
        /\ SameNum(PyRound0(TinExampleLocals.max_price_ngn_per_ton), IntV(30051181))
        /\ SameNum(calc_tin_ore(self, IntV(70)),
                   PyDiv(TinExampleLocals.max_price_ngn_per_ton, IntV(1000)))
        /\ SameNum(ret.max_purchase_prices.tin_ore.grades["70%"], IntV(30051))

\* calculate_all has returned for the example's snapshot and rates
C11_Witness ==
    /\ Returned("calculate_all")
    /\ TinExample
    /\ ~IsNone(CNY_NGN_OVERRIDE)
    /\ IsNum(ret.max_purchase_prices.tin_ore.grades["70%"])

\* calc_coltan(30) has returned for an oxide price of 65 and USD_NGN = 1,620.84
ColtanExample ==
    /\ Returned("calc_coltan")
    /\ call.grade = IntV(30)
    /\ SameNum(RequiredPrice(self, "calc_coltan"), IntV(65))
    /\ SameNum(self.USD_NGN, FloatV(162084, 100))
ColtanExampleUnit == unit_price_per_grade(self, RequiredPrice(self, "calc_coltan"))

\* C12 as stated: the unit price per grade point is 817.9 (to one decimal)
\* and calc_coltan(30) is 24,538 to within 1 NGN.
C12_ColtanExampleAsStated ==
    ColtanExample =>
        /\ SameNum(PyRound0(PyMul(ColtanExampleUnit, IntV(10))), IntV(8179))
        /\ NumLt(IntV(24537), ret) /\ NumLt(ret, IntV(24539))

\* C12, amended: with oxide price 65 USD/kg, air cost 8, VAT 1.13,
\* USD_NGN = 1,620.84 and grade 30, the unit price per grade point is 817.6
\* (to one decimal) and calc_coltan(30) = 30 * unit is 24,528 to the whole NGN.
C12_ColtanExample ==
    ColtanExample =>
        /\ SameNum(PyRound0(PyMul(ColtanExampleUnit, IntV(10))), IntV(8176))
        /\ SameNum(ret, PyMul(IntV(30), ColtanExampleUnit))
        /\ SameNum(PyRound0(ret), IntV(24528))

C12_Witness == ColtanExample /\ IsNum(ret) /\ IsNone(CNY_NGN_OVERRIDE)

\* the strategy op at grade g (the flat strategies take no grade)
Strategy(op, obj, g) ==
    CASE op = "calc_tin_ore"    -> calc_tin_ore(obj, g)
      [] op = "calc_coltan"     -> calc_coltan(obj, g)
      [] op = "calc_monazite"   -> calc_monazite(obj, g)
      [] op = "calc_titanium"   -> calc_titanium(obj)
      [] op = "calc_zircon"     -> calc_zircon(obj)
      [] op = "calc_spodumene"  -> calc_spodumene(obj, g)
      [] op = "calc_lepidolite" -> calc_lepidolite(obj, g)
      [] op = "calc_lead_ore"   -> calc_lead_ore(obj, g)
      [] op = "calc_zinc_ore"   -> calc_zinc_ore(obj, g)
\* the grade each label of the table stands for
TableGrades ==
    [tin_ore |-> TinGradePoints, coltan |-> ColtanGradePoints,
     monazite |-> MonaziteGradePoints, titanium |-> ("50%" :> IntV(50)),
     zircon |-> ("65%" :> IntV(65)), spodumene |-> SpodumeneGradePoints,
     lepidolite |-> LepidoliteGradePoints, lead_ore |-> LeadGradePoints,
     zinc_ore |-> ZincGradePoints]
\* the smm_prices key behind each source_prices entry
SourceKey ==
    [tin |-> "tin", tantalum_oxide |-> "tantalum_oxide", monazite |-> "monazite_concentrate",
     titanium |-> "titanium_concentrate", zircon |-> "zircon_sand",
     spodumene |-> "spodumene", lithium_carbonate |-> "lithium_carbonate",
     lead |-> "lead", zinc |-> "zinc"]

\* C13: every grades value of calculate_all's table is the rounding to the
\* whole unit of the strategy's own result at that grade, and every
\* source_prices price is the looked-up price itself, not rounded.
C13_RoundingOnlyAtTheEnd ==
    Returned("calculate_all") =>
        /\ \A c \in DOMAIN TableGrades : \A l \in DOMAIN TableGrades[c] :
              SameNum(ret.max_purchase_prices[c].grades[l],
                      PyRound0(Strategy(TableStrategy[c], self, TableGrades[c][l])))
        /\ DOMAIN ret.source_prices = DOMAIN SourceKey
        /\ \A k \in DOMAIN SourceKey :
              SameNum(ret.source_prices[k].price,
                      _get_price(self, SourceKey[k], "price_avg", <<>>))

\* calculate_all has returned a table in which the monazite source price is
\* not whole and the 60% tin result differs from its rounded table entry
C13_Witness ==
    /\ Returned("calculate_all")
    /\ IsNum(ret.source_prices.monazite.price)
    /\ ~SameNum(ret.source_prices.monazite.price, PyRound0(ret.source_prices.monazite.price))
    /\ IsNum(calc_tin_ore(self, IntV(60)))
    /\ ~SameNum(calc_tin_ore(self, IntV(60)), ret.max_purchase_prices.tin_ore.grades["60%"])

\* the provenance a CNY_NGN_SOURCE string stands for
Provenance(source) ==
    CASE source = "Manual Override" -> "manual-override"
      [] source = "Auto" -> "derived"
      [] OTHER -> "untagged"

\* C14: a constructed calculator's rates are tagged manual-override exactly
\* when the CNY/NGN override is configured and derived otherwise, and
\* calculate_all reports that tag, with the three rates, in exchange_rates.
C14_ProvenanceTag ==
    /\ Constructed =>
          Provenance(self.CNY_NGN_SOURCE) =
              IF ~IsNone(CNY_NGN_OVERRIDE) THEN "manual-override" ELSE "derived"
    /\ Returned("calculate_all") =>
          /\ ret.exchange_rates.cny_ngn_source = self.CNY_NGN_SOURCE
          /\ SameNum(ret.exchange_rates.cny_ngn, self.CNY_NGN)
          /\ SameNum(ret.exchange_rates.usd_cny, self.USD_CNY)
          /\ SameNum(ret.exchange_rates.usd_ngn, self.USD_NGN)

\* calculate_all has reported the override's tag for a snapshot that has a
\* cny_ngn rate of its own
C14_Witness ==
    /\ Returned("calculate_all")
    /\ ~IsNone(CNY_NGN_OVERRIDE)
    /\ IsNum(RateEntry(price_data, "cny_ngn"))
    /\ Provenance(ret.exchange_rates.cny_ngn_source) = "manual-override"

\* the strategies other than monazite that deduct the sea-logistics cost
UnclampedStrategies ==
    {"calc_tin_ore", "calc_lead_ore", "calc_zinc_ore", "calc_titanium", "calc_zircon",
     "calc_spodumene", "calc_lepidolite"}
\* the China-side value of the strategy op in NGN per tonne, for reference price p
ChinaValue(op, obj, p, g) ==
    CASE op \in LinearStrategies ->
             PyMul(PyMul(p, PyDiv(g, IntV(100))), obj.USD_NGN)
      [] op = "calc_titanium" -> PyMul(p, obj.CNY_NGN)
      [] op = "calc_zircon" -> PyMul(p, obj.USD_NGN)
      [] op = "calc_spodumene" ->
             PyMul(PyMul(p, obj.USD_NGN), PyDiv(g, IntV(6)))
      [] op = "calc_lepidolite" ->
             PyMul(PyMul(PyDiv(PySub(PyMul(p, obj.USD_CNY), IntV(45000)), IntV(20)),
                         PyDiv(g, FloatV(25, 10))),
                   obj.CNY_NGN)
\* the FOB value before VAT: the China-side value less the sea-logistics cost
Fob(op, obj, p, g) == PySub(ChinaValue(op, obj, p, g), IntV(80309))
\* the unit conversion or discount applied after the VAT division
AfterVat(op, x) ==
    CASE op = "calc_tin_ore" -> PyDiv(x, IntV(1000))
      [] op = "calc_spodumene" -> PyMul(x, FloatV(6, 10))
      [] op = "calc_lepidolite" -> PyMul(x, FloatV(3, 10))
      [] OTHER -> x
\* the grade of the last call, 0 for the strategies that take none
CallGrade == IF "grade" \in DOMAIN call THEN call.grade ELSE IntV(0)

\* C15: tin, lead, zinc, titanium, zircon, spodumene and lepidolite are not
\* clamped: with the reference price available and a negative FOB value the
\* strategy returns the negative number FOB / 1.13, converted or discounted.
C15_ClampIsMonaziteOnly ==
    (/\ pc = "returned" /\ call.op \in UnclampedStrategies
     /\ ~IsNone(RequiredPrice(self, call.op))
     /\ Negative(Fob(call.op, self, RequiredPrice(self, call.op), CallGrade)))
        => /\ Negative(ret)
           /\ SameNum(ret,
                      AfterVat(call.op,
                               PyDiv(Fob(call.op, self, RequiredPrice(self, call.op),
                                         CallGrade),
                                     FloatV(113, 100))))

\* calc_spodumene has returned a negative number for an available price
C15_Witness ==
    /\ Returned("calc_spodumene")
    /\ Positive(RequiredPrice(self, "calc_spodumene"))
    /\ Negative(Fob("calc_spodumene", self, RequiredPrice(self, "calc_spodumene"), call.grade))
    /\ Negative(ret)

\* the reference price of the last call's strategy is available
Available == pc = "returned" /\ call.op \in Strategies /\ ~IsNone(RequiredPrice(self, call.op))
\* that reference price
Reference == RequiredPrice(self, call.op)

\* ((referenceUSD * g/100) * USD_NGN - LOGISTICS_COST_SEA) / VAT_RATE
LinearFormula(obj, p, g) ==
    PyDiv(PySub(PyMul(PyMul(p, PyDiv(g, IntV(100))), obj.USD_NGN), LOGISTICS_COST_SEA),
          VAT_RATE)

\* C16: with the reference price available, calc_lead_ore(g) and
\* calc_zinc_ore(g) are ((reference * g/100) * USD_NGN - LOGISTICS_COST_SEA)
\* / VAT_RATE and calc_tin_ore(g) is that divided by 1000.
C16_LinearMetalOre ==
    (Available /\ call.op \in LinearStrategies) =>
        SameNum(ret,
                IF call.op = "calc_tin_ore"
                THEN PyDiv(LinearFormula(self, Reference, call.grade), IntV(1000))
                ELSE LinearFormula(self, Reference, call.grade))

\* calc_zinc_ore has returned a positive price at a grade other than 50
C16_Witness ==
    /\ Available /\ call.op = "calc_zinc_ore"
    /\ call.grade = IntV(60)
    /\ Positive(ret)

\* C17: with the reference price available, calc_spodumene(g) is
\* (((reference * USD_NGN * g/6) - LOGISTICS_COST_SEA) / VAT_RATE)
\* * SPODUMENE_DISCOUNT: the discount comes after logistics and VAT.
C17_SpodumeneDiscountLast ==
    (Available /\ call.op = "calc_spodumene") =>
        SameNum(ret,
                PyMul(PyDiv(PySub(PyMul(PyMul(Reference, self.USD_NGN),
                                        PyDiv(call.grade, IntV(6))),
                                  LOGISTICS_COST_SEA),
                            VAT_RATE),
                      SPODUMENE_DISCOUNT))

C17_Witness ==
    /\ Available /\ call.op = "calc_spodumene"
    /\ call.grade = IntV(5)
    /\ Positive(ret)

\* C18: with the oxide price available, calc_coltan(g) is
\* g * (((oxide - COLTAN_AIR_COST) / VAT_RATE / 100) * USD_NGN), without the
\* sea-logistics cost, and calc_coltan(2g) is twice calc_coltan(g).
C18_ColtanPerGradePoint ==
    (Available /\ call.op = "calc_coltan") =>
        /\ SameNum(ret,
                   PyMul(call.grade,
                         PyMul(PyDiv(PyDiv(PySub(Reference, COLTAN_AIR_COST), VAT_RATE),
                                     IntV(100)),
                               self.USD_NGN)))
        /\ SameNum(calc_coltan(self, PyMul(IntV(2), call.grade)), PyMul(IntV(2), ret))

C18_Witness ==
    /\ Available /\ call.op = "calc_coltan"
    /\ call.grade = IntV(25)
    /\ Positive(ret)

\* C19: with the reference price available, calc_titanium() is
\* (reference * CNY_NGN - LOGISTICS_COST_SEA) / VAT_RATE and calc_zircon() is
\* (reference * USD_NGN - LOGISTICS_COST_SEA) / VAT_RATE; neither call has a
\* grade, and calculate_all reports each under the one label "50%" or "65%".
C19_FlatCommodities ==
    /\ (Available /\ call.op = "calc_titanium") =>
          /\ "grade" \notin DOMAIN call
          /\ SameNum(ret, PyDiv(PySub(PyMul(Reference, self.CNY_NGN), LOGISTICS_COST_SEA),
                                VAT_RATE))
    /\ (Available /\ call.op = "calc_zircon") =>
          /\ "grade" \notin DOMAIN call
          /\ SameNum(ret, PyDiv(PySub(PyMul(Reference, self.USD_NGN), LOGISTICS_COST_SEA),
                                VAT_RATE))
    /\ Returned("calculate_all") =>
          /\ DOMAIN ret.max_purchase_prices.titanium.grades = {"50%"}
          /\ DOMAIN ret.max_purchase_prices.zircon.grades = {"65%"}
          /\ SameNum(ret.max_purchase_prices.titanium.grades["50%"],
                     PyRound0(calc_titanium(self)))
          /\ SameNum(ret.max_purchase_prices.zircon.grades["65%"],
                     PyRound0(calc_zircon(self)))

\* calc_titanium has returned a positive price where the two rates differ
C19_Witness ==
    /\ Available /\ call.op = "calc_titanium"
    /\ Positive(ret)
    /\ ~SameNum(self.CNY_NGN, self.USD_NGN)

SourceStrategy ==
    [tin |-> "calc_tin_ore", tantalum_oxide |-> "calc_coltan", monazite |-> "calc_monazite",
     titanium |-> "calc_titanium", zircon |-> "calc_zircon",
     spodumene |-> "calc_spodumene", lithium_carbonate |-> "calc_lepidolite",
     lead |-> "calc_lead_ore", zinc |-> "calc_zinc_ore"]
\* the table entry priced from each source_prices entry
SourceTable ==
    [tin |-> "tin_ore", tantalum_oxide |-> "coltan", monazite |-> "monazite",
     titanium |-> "titanium", zircon |-> "zircon", spodumene |-> "spodumene",
     lithium_carbonate |-> "lepidolite", lead |-> "lead_ore", zinc |-> "zinc_ore"]

\* C21: in the record calculate_all returns, the price of every source_prices
\* entry is the value the commodity's strategy obtained from _get_price, so
\* a commodity with a non-zero entry in its grades table has a non-null
\* source_prices price (monazite and its fallback key "monazite" included).
C21_AuditMatchesStrategies ==
    Returned("calculate_all") =>
        \A k \in DOMAIN SourceStrategy :
            /\ SameNum(ret.source_prices[k].price, RequiredPrice(self, SourceStrategy[k]))
            /\ (\E l \in DOMAIN ret.max_purchase_prices[SourceTable[k]].grades :
                    ~IsZero(ret.max_purchase_prices[SourceTable[k]].grades[l]))
                   => ~IsNone(ret.source_prices[k].price)

\* the snapshot's smm_prices has exactly the keys of the scraper's output
\* template, each a record with a non-zero price_avg
UsesScraperKeys(data) ==
    \E smm \in {Get(data, "smm_prices", EmptyDict)} :
        /\ IsDict(smm)
        /\ DOMAIN smm.d = ScraperKeys
        /\ \A k \in ScraperKeys :
              /\ IsDict(smm.d[k])
              /\ \E p \in {Get(smm.d[k], "price_avg", None)} : IsNum(p) /\ ~IsZero(p)

\* C22: on a snapshot that uses exactly the scraper template's smm_prices
\* keys with a non-zero price_avg in every record, each of the nine
\* strategies finds its reference price: none gets None from _get_price.
C22_ScraperKeysReachEveryStrategy ==
    (pc = "returned" /\ call.op \in Strategies /\ UsesScraperKeys(price_data))
        => ~IsNone(RequiredPrice(self, call.op))

\* the positions in the log of the save_prices calls for the date d
SavesOf(d) == {i \in DOMAIN saves : saves[i].date = d}
\* the snapshot of the most recent save_prices call for the date d
LastSaved(d) == saves[CHOOSE i \in SavesOf(d) : \A n \in SavesOf(d) : n <= i].price_data
\* the dates saved so far, as json.dump writes them as keys
SavedKeys == {KeyText(saves[i].date) : i \in DOMAIN saves}

\* C23: after any sequence of save_prices calls that returned, the history
\* file, read back with json.load, has exactly one entry per saved date and
\* maps each saved date to the snapshot of the most recent call for it; so a
\* call for one date leaves the entry of every other date as its own last
\* call left it.  Before the first call there is no history file.
C23_HistoryLastWriteWins ==
    /\ (saves = <<>>) <=> (PRICE_JSON_FILE \notin DOMAIN files)
    /\ saves # <<>> =>
          /\ DOMAIN ReadHistory(files).d = SavedKeys
          /\ \A i \in DOMAIN saves :
                ReadHistory(files).d[KeyText(saves[i].date)] = LastSaved(saves[i].date)

\* the second of two save_prices calls for one date has returned, with a
\* snapshot that differs from the first call's
C23_Witness ==
    /\ pc = "returned" /\ call.op = "save_prices" /\ IsNone(ret)
    /\ Len(saves) = 2
    /\ saves[1].date = saves[2].date
    /\ saves[1].price_data # saves[2].price_data

\* the daily price files and the history file: every file but the debug file
PriceFiles(a) == CHOOSE r \in {[p \in DOMAIN fs \ {DebugFile} |-> fs[p]] : fs \in {a}} : TRUE
\* the snapshot data is in its daily file and is its date's history entry
Persisted(a, b, today) ==
    \E fs \in {a}, data \in {b} :
        /\ IsDict(data)
        /\ \E date \in {Get(data, "date", Str(today))} :
              /\ DailyFile(date) \in DOMAIN fs
              /\ loads(fs[DailyFile(date)]) = data
              /\ PRICE_JSON_FILE \in DOMAIN fs
              /\ KeyText(date) \in DOMAIN ReadHistory(fs).d
              /\ ReadHistory(fs).d[KeyText(date)] = data

\* a failed fetch (its result has the key "error") leaves the daily price
\* files and the history file as they were
FailedFetchWritesNothing ==
    [][(pc = "ready" /\ call'.op = "run" /\ ErrorIn(call'.fetched) = "yes")
          => PriceFiles(files') = PriceFiles(files)]_vars

\* C25: run persists the fetched snapshot, as its daily file and as its
\* date's history entry, if and only if the fetch result has no "error" in
\* it; after a failed fetch the daily price files and the history file are
\* as they were before the call.
C25_PersistsIffNoError ==
    [][(pc = "ready" /\ call'.op = "run")
          => IF ErrorIn(call'.fetched) = "no"
             THEN Persisted(files', call'.fetched, call'.today)
             ELSE PriceFiles(files') = PriceFiles(files)]_vars

\* wait_for_task has ended: it returned or raised
Ended == pc = "returned" /\ call.op = "wait_for_task"
InLoop == pc \in {"while", "poll", "sleep"}
IsException(x) == x.t \in {"TimeoutError", "Exception", "AttributeError", "TypeError"}
Elapsed == now - start_time
ObservedDone == status.t = "str" /\ status.s \in {"completed", "success"}
ObservedFailed == status.t = "str" /\ status.s \in {"error", "failed"}

\* wait_for_task returns a result only for a task whose status it has
\* observed as completed or success
ResultOnlyWhenCompleted == (Ended /\ ~IsException(ret)) => ObservedDone
\* wait_for_task ends, when every status request is answered and every
\* sleep ends
WaitEnds == (pc = "while") ~> (pc = "returned")

\* C24: wait_for_task ends in one of three ways only: it returns a result,
\* having observed completed or success; it raises the task-failed exception,
\* having observed error or failed; or it raises TimeoutError with the
\* elapsed time at the timeout or beyond.  It polls on while it has observed
\* neither, one status request per interval.
C24_ThreeOutcomes ==
    /\ Ended =>
          \/ ~IsException(ret) /\ ObservedDone
          \/ ret = TaskFailed /\ ObservedFailed
          \/ ret = TimeoutError /\ Elapsed >= call.timeout
    /\ InLoop =>
          /\ ~ObservedDone /\ ~ObservedFailed
          /\ polls * call.interval <= Elapsed + call.interval
====
